---- MODULE Spec2Model ----
(***************************************************************************)
(* Focus outliner: the event-sourced document engine.                      *)
(*                                                                         *)
(*   - the in-memory bullet forest and its command surface (store.ts)      *)
(*   - the event replayer (event-replayer.ts)                              *)
(*   - the durable event store (IndexedDB, one transaction per call)       *)
(*   - the workspace lock protocol (store.ts + crypto.ts)                  *)
(*                                                                         *)
(* A bullet is the record [id, content, context, collapsed, checked,       *)
(* createdAt, children]; a forest is a sequence of bullets.  Indices in    *)
(* event payloads are 0-based as in the source; sequence positions in the  *)
(* model are 1-based.                                                      *)
(***************************************************************************)
EXTENDS Integers, Sequences, FiniteSets, TLC

VARIABLES
  bullets,            \* RootStore.bullets
  zoomedBulletId,     \* RootStore.zoomedBulletId
  history,            \* RootStore.history
  historyIndex,       \* RootStore.historyIndex (0-based, -1 when empty)
  workspaces,         \* RootStore.workspaces (sorted sequence of records)
  currentWorkspace,   \* RootStore.currentWorkspace
  lockedWorkspaceId,  \* RootStore.lockedWorkspaceId
  recordingDepth,     \* module-level recordingDepth
  lastTimestamp,      \* module-level lastTimestamp
  activeWorkspace,    \* module-level activeWorkspace
  dbEvents,           \* durable 'events' object store, in key order
  dbWorkspaces,       \* durable 'workspaces' object store
  storeAvailable,     \* isIndexedDbAvailable()
  hasWindow,          \* typeof window !== 'undefined'
  inflight,           \* transactions on the 'events' store, started and not yet
                      \* complete, in creation order
  flow,               \* the lockWorkspace / unlockWorkspace flow in progress
  lockSnapshot,       \* tree and stored events seen when the last lock started
  nextId,             \* source of generateBulletId()
  cmds,               \* number of commands issued so far
  ops,                \* number of lock, unlock and restart operations and of
                      \* storage failures so far
  result,             \* what the last command returned or threw
  replayed            \* output of the last replayEvents call

treeVars == <<bullets, zoomedBulletId, history, historyIndex>>
wsVars == <<workspaces, currentWorkspace, lockedWorkspaceId>>
modVars == <<recordingDepth, lastTimestamp, activeWorkspace>>
dbVars == <<dbEvents, dbWorkspaces, storeAvailable, hasWindow>>
asyncVars == <<inflight, flow, lockSnapshot>>
auxVars == <<nextId, cmds, ops, result, replayed>>
vars == <<treeVars, wsVars, modVars, dbVars, asyncVars, auxVars>>

-----------------------------------------------------------------------------
(* Bounds *)

MaxCmds == 2         \* commands issued in one behaviour
MaxInflight == 1     \* appendEvent transactions pending at once
MaxClock == 1        \* wall-clock readings are 1..MaxClock
MaxTreeNodes == 2    \* size of the trees whose creation events are replayed

HistoryLimit == 100

Null == 0
NoWs == ""
GhostId == 99
Clock == 1..MaxClock
Contents == {"x"}
Contexts == {"n"}

-----------------------------------------------------------------------------
(* Sequence helpers (Array.prototype.splice) *)

InsertAt(s, k, x) == SubSeq(s, 1, k) \o <<x>> \o SubSeq(s, k + 1, Len(s))

RemoveAt(s, k) == SubSeq(s, 1, k - 1) \o SubSeq(s, k + 1, Len(s))

Min(a, b) == IF a < b THEN a ELSE b

Max(a, b) == IF a > b THEN a ELSE b

Range(s) == {s[i] : i \in 1..Len(s)}

-----------------------------------------------------------------------------
(* The bullet forest *)

NewBullet(id, now) ==
  [id |-> id, content |-> "", context |-> "", collapsed |-> FALSE,
   checked |-> FALSE, createdAt |-> now, children |-> <<>>]

RECURSIVE findPathFrom(_, _, _)
findPathFrom(id, bs, i) ==
  IF i > Len(bs) THEN <<>>
  ELSE IF bs[i].id = id THEN <<i>>
  ELSE LET sub == findPathFrom(id, bs[i].children, 1)
       IN IF sub # <<>> THEN <<i>> \o sub ELSE findPathFrom(id, bs, i + 1)

\* path of the first bullet with this id in pre-order, <<>> when absent
findBulletWithContext(id, bs) == findPathFrom(id, bs, 1)

RECURSIVE ChildrenAt(_, _)
ChildrenAt(bs, ppath) ==
  IF ppath = <<>> THEN bs ELSE ChildrenAt(bs[Head(ppath)].children, Tail(ppath))

RECURSIVE NodeAt(_, _)
NodeAt(bs, path) ==
  IF Len(path) = 1 THEN bs[path[1]] ELSE NodeAt(bs[Head(path)].children, Tail(path))

RECURSIVE SetChildren(_, _, _)
SetChildren(bs, ppath, kids) ==
  IF ppath = <<>> THEN kids
  ELSE [bs EXCEPT ![Head(ppath)] =
          [bs[Head(ppath)] EXCEPT
             !.children = SetChildren(bs[Head(ppath)].children, Tail(ppath), kids)]]

RECURSIVE SetNode(_, _, _)
SetNode(bs, path, node) ==
  IF Len(path) = 1 THEN [bs EXCEPT ![path[1]] = node]
  ELSE [bs EXCEPT ![Head(path)] =
          [bs[Head(path)] EXCEPT
             !.children = SetNode(bs[Head(path)].children, Tail(path), node)]]

ParentPath(path) == SubSeq(path, 1, Len(path) - 1)

LastIdx(path) == path[Len(path)]

ParentIdOf(bs, path) ==
  IF Len(path) = 1 THEN Null ELSE NodeAt(bs, ParentPath(path)).id

findBulletById(id, bs) == findBulletWithContext(id, bs) # <<>>

\* mobx-state-tree detach(): the node leaves its parent's children array
detach(bs, path) ==
  SetChildren(bs, ParentPath(path), RemoveAt(ChildrenAt(bs, ParentPath(path)), LastIdx(path)))

\* array.splice(k, 0, node) on the children array owned by ppath (0-based k)
\* the node is appended whatever the index
insertChildAtEnd(bs, ppath, k, node) ==
  SetChildren(bs, ppath, Append(ChildrenAt(bs, ppath), node))

insertChildAt(bs, ppath, k, node) ==
  SetChildren(bs, ppath, InsertAt(ChildrenAt(bs, ppath), Min(k, Len(ChildrenAt(bs, ppath))), node))

RECURSIVE IdsOf(_)
IdsOf(bs) ==
  IF bs = <<>> THEN <<>>
  ELSE <<bs[1].id>> \o IdsOf(bs[1].children) \o IdsOf(Tail(bs))

-----------------------------------------------------------------------------
(* Event replayer (event-replayer.ts).  The replay state keeps the nodes   *)
(* in a map by id; a node's children array holds node references, modelled *)
(* as ids into that map.                                                   *)

createState == [root |-> <<>>, nodes |-> <<>>, parents |-> <<>>]

HasNode(st, id) == id \in DOMAIN st.nodes

\* [found, list]: found is FALSE when the source returns null (unknown parent)
getChildren(st, parentId) ==
  IF parentId = Null THEN [found |-> TRUE, list |-> st.root]
  ELSE IF ~HasNode(st, parentId) THEN [found |-> FALSE, list |-> <<>>]
  ELSE [found |-> TRUE, list |-> st.nodes[parentId].children]

putChildren(st, parentId, kids) ==
  IF parentId = Null THEN [st EXCEPT !.root = kids]
  ELSE [st EXCEPT !.nodes[parentId].children = kids]

IndexOf(s, x) ==
  IF \E i \in 1..Len(s) : s[i] = x
  THEN CHOOSE i \in 1..Len(s) : s[i] = x /\ \A j \in 1..(i - 1) : s[j] # x
  ELSE 0

\* [ok, st]: ok is FALSE when the source returns null
removeFromParent(st, id) ==
  LET parentId == IF id \in DOMAIN st.parents THEN st.parents[id] ELSE Null
      siblings == getChildren(st, parentId)
  IN IF ~siblings.found THEN [ok |-> FALSE, st |-> st]
     ELSE LET index == IndexOf(siblings.list, id)
          IN IF index = 0 THEN [ok |-> FALSE, st |-> st]
             ELSE [ok |-> TRUE,
                   st |-> putChildren(st, parentId, RemoveAt(siblings.list, index))]

RECURSIVE SubtreeIds(_, _)
SubtreeIds(st, id) ==
  {id} \cup UNION {SubtreeIds(st, st.nodes[id].children[i]) :
                     i \in 1..Len(st.nodes[id].children)}

Restrict(f, S) == [x \in S |-> f[x]]

deleteSubtree(st, id) ==
  LET gone == SubtreeIds(st, id)
  IN [st EXCEPT !.nodes = Restrict(st.nodes, DOMAIN st.nodes \ gone),
                !.parents = Restrict(st.parents, DOMAIN st.parents \ gone)]

SetKey(f, k, v) == [x \in DOMAIN f \cup {k} |-> IF x = k THEN v ELSE f[x]]

insertNode(st, id, parentId, index) ==
  LET siblings == getChildren(st, parentId)
  IN IF ~siblings.found THEN st
     ELSE LET insertIndex == Min(Max(index, 0), Len(siblings.list))
              st1 == putChildren(st, parentId, InsertAt(siblings.list, insertIndex, id))
          IN [st1 EXCEPT !.parents = SetKey(st1.parents, id, parentId)]

ensureNode(st, payload) ==
  IF HasNode(st, payload.id) THEN st
  ELSE LET node == [id |-> payload.id, content |-> payload.content,
                    context |-> payload.context, collapsed |-> payload.collapsed,
                    checked |-> FALSE, createdAt |-> payload.createdAt,
                    children |-> <<>>]
           st1 == [st EXCEPT !.nodes = SetKey(st.nodes, payload.id, node)]
       IN insertNode(st1, payload.id, payload.parentId, payload.index)

applyBulletDeleted(st, payload) ==
  LET r == removeFromParent(st, payload.id)
  IN IF r.ok THEN deleteSubtree(r.st, payload.id) ELSE st

applyMove(st, id, toParentId, toIndex) ==
  LET r == removeFromParent(st, id)
  IN IF r.ok THEN insertNode(r.st, id, toParentId, toIndex) ELSE st

applyFieldUpdate(st, id, field, value) ==
  IF HasNode(st, id)
  THEN [st EXCEPT !.nodes[id] =
          CASE field = "content" -> [@ EXCEPT !.content = value]
            [] field = "context" -> [@ EXCEPT !.context = value]
            [] field = "collapsed" -> [@ EXCEPT !.collapsed = value]
            [] field = "checked" -> [@ EXCEPT !.checked = value]]
  ELSE st

IsWorkspaceEvent(type) ==
  type \in {"workspace_created", "workspace_renamed", "workspace_deleted"}

\* handlers[event.type](state, event.payload)
applyEvent(st, e) ==
  CASE e.type = "bullet_created" -> ensureNode(st, e.payload)
    [] e.type = "bullet_deleted" -> applyBulletDeleted(st, e.payload)
    [] e.type = "bullet_moved" ->
         applyMove(st, e.payload.id, e.payload.parentId, e.payload.toIndex)
    [] e.type = "bullet_indented" ->
         applyMove(st, e.payload.id, e.payload.toParentId, e.payload.toIndex)
    [] e.type = "bullet_outdented" ->
         applyMove(st, e.payload.id, e.payload.toParentId, e.payload.toIndex)
    [] e.type = "bullet_content_updated" ->
         applyFieldUpdate(st, e.payload.id, "content", e.payload.content)
    [] e.type = "bullet_context_updated" ->
         applyFieldUpdate(st, e.payload.id, "context", e.payload.context)
    [] e.type = "bullet_collapsed_updated" ->
         applyFieldUpdate(st, e.payload.id, "collapsed", e.payload.collapsed)
    [] e.type = "bullet_checked_updated" ->
         applyFieldUpdate(st, e.payload.id, "checked", e.payload.checked)
    [] OTHER -> st

\* a payload that is JSON null
NullPayload == [k \in {} |-> k]

\* handler(state, event.payload) throws: every bullet handler starts by
\* reading payload.id, before it touches the state
Throws(e) == ~IsWorkspaceEvent(e.type) /\ DOMAIN e.payload = {}

RECURSIVE replayFromUntilThrow(_, _, _)
replayFromUntilThrow(st, events, i) ==
  IF i > Len(events) \/ Throws(events[i]) THEN st
  ELSE replayFromUntilThrow(applyEvent(st, events[i]), events, i + 1)

\* the loop of replayEvents: a throwing handler is caught and logged
RECURSIVE replayFrom(_, _, _)
replayFrom(st, events, i) ==
  IF i > Len(events) THEN st
  ELSE IF Throws(events[i]) THEN replayFrom(st, events, i + 1)
  ELSE replayFrom(applyEvent(st, events[i]), events, i + 1)

RECURSIVE BuildForest(_, _)
BuildForest(st, ids) ==
  IF ids = <<>> THEN <<>>
  ELSE <<[st.nodes[ids[1]] EXCEPT !.children = BuildForest(st, st.nodes[ids[1]].children)]>>
         \o BuildForest(st, Tail(ids))

\* the forest reachable from state.root
replayEvents(events) ==
  LET st == replayFrom(createState, events, 1) IN BuildForest(st, st.root)

-----------------------------------------------------------------------------
(* Module-level helpers of store.ts *)

nextTimestamp(now, last) == IF now <= last THEN last + 1 ELSE now

\* a transaction on the 'events' store; prev remembers, for the second half
\* of replaceWorkspaceEvents, what the workspace held before the first
Tx(kind, owner, ws, events) ==
  [kind |-> kind, owner |-> owner, ws |-> ws, events |-> events, prev |-> <<>>]

\* em = [last, q]: lastTimestamp and the transaction queue threaded through
\* the emitEvent calls of one handler
emitEvent(em, type, payload, now) ==
  IF recordingDepth > 0 \/ ~storeAvailable THEN em
  ELSE LET ts == nextTimestamp(now, em.last)
       IN IF activeWorkspace = NoWs THEN [em EXCEPT !.last = ts]
          ELSE [last |-> ts,
                q |-> Append(em.q,
                        Tx("append", "emit", activeWorkspace,
                           <<[type |-> type, payload |-> payload, timestamp |-> ts,
                              workspaceId |-> activeWorkspace]>>))]

RECURSIVE creationPayloads(_, _, _)
creationPayloads(nodes, parentId, i) ==
  IF i > Len(nodes) THEN <<>>
  ELSE <<[id |-> nodes[i].id, parentId |-> parentId, index |-> i - 1,
          content |-> nodes[i].content, context |-> nodes[i].context,
          collapsed |-> nodes[i].collapsed, createdAt |-> nodes[i].createdAt]>>
         \o creationPayloads(nodes[i].children, nodes[i].id, 1)
         \o creationPayloads(nodes, parentId, i + 1)

RECURSIVE stampFrom(_, _, _, _)
stampFrom(payloads, i, now, last) ==
  IF i > Len(payloads) THEN <<>>
  ELSE <<[type |-> "bullet_created", payload |-> payloads[i],
          timestamp |-> nextTimestamp(now, last)]>>
         \o stampFrom(payloads, i + 1, now, nextTimestamp(now, last))

\* the depth-first bullet_created events of a forest
createCreationEvents(nodes, parentId, now, last) ==
  stampFrom(creationPayloads(nodes, parentId, 1), 1, now, last)

LastStamp(events, last) ==
  IF events = <<>> THEN last ELSE events[Len(events)].timestamp

createWelcomeTree(id0, now) ==
  <<[id |-> id0, content |-> "Welcome to Focus!",
     context |-> "Press Shift+Enter to add notes. Click the bullet dot to zoom in.",
     collapsed |-> FALSE, checked |-> FALSE, createdAt |-> now,
     children |->
       <<[NewBullet(id0 + 1, now) EXCEPT !.content = "Press Enter to create a new bullet"],
         [NewBullet(id0 + 2, now) EXCEPT !.content = "Press Tab to indent"],
         [NewBullet(id0 + 3, now) EXCEPT !.content = "Press Shift+Tab to outdent"]>>]>>

createBlankWorkspaceTree(id0, now) == <<NewBullet(id0, now)>>

-----------------------------------------------------------------------------
(* Durable event store (event-store.ts) *)

WithWs(ws, events) ==
  [i \in 1..Len(events) |->
     [type |-> events[i].type, payload |-> events[i].payload,
      timestamp |-> events[i].timestamp, workspaceId |-> ws]]

EventsOf(db, ws) == SelectSeq(db, LAMBDA e : e.workspaceId = ws)

RECURSIVE SortByTimestamp(_)
SortByTimestamp(s) ==
  IF s = <<>> THEN <<>>
  ELSE LET k == CHOOSE i \in 1..Len(s) :
                  /\ \A j \in 1..Len(s) : s[i].timestamp <= s[j].timestamp
                  /\ \A j \in 1..(i - 1) : s[j].timestamp # s[i].timestamp
       IN <<s[k]>> \o SortByTimestamp(RemoveAt(s, k))

\* what the workspaceId index hands back: records in insertion order
getAllEventsUnsorted(db, ws) == IF ws = NoWs THEN db ELSE EventsOf(db, ws)

\* events of one workspace, or of every workspace when no id is passed,
\* sorted by timestamp (stable)
getAllEvents(db, ws) ==
  IF ws = NoWs THEN SortByTimestamp(db) ELSE SortByTimestamp(EventsOf(db, ws))

clearEventsForWorkspace(db, ws) == SelectSeq(db, LAMBDA e : e.workspaceId # ws)

bulkInsertEvents(db, ws, events) == db \o WithWs(ws, events)

BulletEvents(events) == SelectSeq(events, LAMBDA e : ~IsWorkspaceEvent(e.type))

WorkspaceEvents(events) == SelectSeq(events, LAMBDA e : IsWorkspaceEvent(e.type))

-----------------------------------------------------------------------------
(* History *)

Snapshot(bs, z) == [bullets |-> bs, zoomedBulletId |-> z]

\* [history, historyIndex] after saveToHistory
saveToHistoryUnbounded(h, idx, bs, z) ==
  LET h1 == Append(SubSeq(h, 1, idx + 1), Snapshot(bs, z))
  IN [history |-> h1, historyIndex |-> Len(h1) - 1]

saveToHistory(h, idx, bs, z) ==
  LET h1 == Append(SubSeq(h, 1, idx + 1), Snapshot(bs, z))
  IN IF Len(h1) > HistoryLimit
     THEN [history |-> Tail(h1), historyIndex |-> Len(h1) - 2]
     ELSE [history |-> h1, historyIndex |-> Len(h1) - 1]

-----------------------------------------------------------------------------
(* Document Store commands (RootStore actions).  Every action is one whole  *)
(* synchronous handler.                                                     *)

Res(cmd, ok, code, newId) ==
  [cmd |-> cmd, ok |-> ok, code |-> code, newId |-> newId, arg |-> "", id |-> Null,
   ws |-> NoWs, op |-> 0, before |-> <<>>, doc |-> <<>>]

Hist0 == [history |-> history, historyIndex |-> historyIndex]

Em0 == [last |-> lastTimestamp, q |-> inflight]

PendingAppends == SelectSeq(inflight, LAMBDA tx : tx.kind = "append")

CanIssue == cmds < MaxCmds /\ Len(PendingAppends) < MaxInflight

KnownIds == Range(IdsOf(bullets))

\* the part of the state a synchronous tree command writes
Apply(bs, z, hist, em, fresh, res) ==
  /\ bullets' = bs
  /\ zoomedBulletId' = z
  /\ history' = hist.history
  /\ historyIndex' = hist.historyIndex
  /\ lastTimestamp' = em.last
  /\ inflight' = em.q
  /\ nextId' = fresh
  /\ result' = res
  /\ cmds' = cmds + 1
  /\ UNCHANGED <<wsVars, recordingDepth, activeWorkspace, dbVars, flow, lockSnapshot,
                 ops, replayed>>

\* a command that returns early but has pushed a history snapshot
SameButSaved(res) ==
  Apply(bullets, zoomedBulletId,
        saveToHistory(history, historyIndex, bullets, zoomedBulletId), Em0, nextId, res)

Same(res) == Apply(bullets, zoomedBulletId, Hist0, Em0, nextId, res)

SetField(bs, path, field, value) ==
  SetNode(bs, path,
    CASE field = "content" -> [NodeAt(bs, path) EXCEPT !.content = value]
      [] field = "context" -> [NodeAt(bs, path) EXCEPT !.context = value]
      [] field = "collapsed" -> [NodeAt(bs, path) EXCEPT !.collapsed = value]
      [] field = "checked" -> [NodeAt(bs, path) EXCEPT !.checked = value])

UpdateBulletContent(id, content, now) ==
  LET p == findBulletWithContext(id, bullets)
  IN /\ CanIssue
     /\ IF p = <<>> THEN Same(Res("updateBulletContent", FALSE, "", Null))
        ELSE Apply(SetField(bullets, p, "content", content), zoomedBulletId, Hist0,
                   emitEvent(Em0, "bullet_content_updated",
                             [id |-> id, content |-> content], now),
                   nextId, Res("updateBulletContent", TRUE, "", Null))

UpdateBulletContext(id, context, now) ==
  LET p == findBulletWithContext(id, bullets)
  IN /\ CanIssue
     /\ IF p = <<>> THEN Same(Res("updateBulletContext", FALSE, "", Null))
        ELSE Apply(SetField(bullets, p, "context", context), zoomedBulletId, Hist0,
                   emitEvent(Em0, "bullet_context_updated",
                             [id |-> id, context |-> context], now),
                   nextId, Res("updateBulletContext", TRUE, "", Null))

SetBulletCollapsed(id, collapsed, now) ==
  LET p == findBulletWithContext(id, bullets)
  IN /\ CanIssue
     /\ IF p = <<>> THEN Same(Res("setBulletCollapsed", FALSE, "", Null))
        ELSE Apply(SetField(bullets, p, "collapsed", collapsed), zoomedBulletId, Hist0,
                   emitEvent(Em0, "bullet_collapsed_updated",
                             [id |-> id, collapsed |-> collapsed], now),
                   nextId, Res("setBulletCollapsed", TRUE, "", Null))

ToggleBulletCollapsed(id, now) ==
  LET p == findBulletWithContext(id, bullets)
  IN /\ CanIssue
     /\ IF p = <<>> THEN Same(Res("toggleBulletCollapsed", FALSE, "", Null))
        ELSE Apply(SetField(bullets, p, "collapsed", ~NodeAt(bullets, p).collapsed),
                   zoomedBulletId, Hist0,
                   emitEvent(Em0, "bullet_collapsed_updated",
                             [id |-> id, collapsed |-> ~NodeAt(bullets, p).collapsed], now),
                   nextId, Res("toggleBulletCollapsed", TRUE, "", Null))

SetBulletChecked(id, checked, now) ==
  LET p == findBulletWithContext(id, bullets)
  IN /\ CanIssue
     /\ IF p = <<>> THEN Same(Res("setBulletChecked", FALSE, "", Null))
        ELSE Apply(SetField(bullets, p, "checked", checked), zoomedBulletId, Hist0,
                   emitEvent(Em0, "bullet_checked_updated",
                             [id |-> id, checked |-> checked], now),
                   nextId, Res("setBulletChecked", TRUE, "", Null))

ToggleBulletChecked(id, now) ==
  LET p == findBulletWithContext(id, bullets)
  IN /\ CanIssue
     /\ IF p = <<>> THEN Same(Res("toggleBulletChecked", FALSE, "", Null))
        ELSE Apply(SetField(bullets, p, "checked", ~NodeAt(bullets, p).checked),
                   zoomedBulletId, Hist0,
                   emitEvent(Em0, "bullet_checked_updated",
                             [id |-> id, checked |-> ~NodeAt(bullets, p).checked], now),
                   nextId, Res("toggleBulletChecked", TRUE, "", Null))

\* the tree after indentBullet moved the bullet at path p under its previous sibling
\* the bullet becomes the first child of its previous sibling
indentTreeFirst(bs, p) ==
  LET prevPath == ParentPath(p) \o <<LastIdx(p) - 1>>
      detached == detach(bs, p)
  IN SetChildren(detached, prevPath, <<NodeAt(bs, p)>> \o ChildrenAt(detached, prevPath))

indentTree(bs, p) ==
  LET prevPath == ParentPath(p) \o <<LastIdx(p) - 1>>
      detached == detach(bs, p)
  IN SetChildren(detached, prevPath, Append(ChildrenAt(detached, prevPath), NodeAt(bs, p)))

IndentBullet(id, now) ==
  LET p == findBulletWithContext(id, bullets)
  IN /\ CanIssue
     /\ IF p = <<>> \/ LastIdx(p) = 1 THEN Same(Res("indentBullet", FALSE, "", Null))
        ELSE LET prevPath == ParentPath(p) \o <<LastIdx(p) - 1>>
                 bs == indentTree(bullets, p)
             IN Apply(bs, zoomedBulletId,
                      saveToHistory(history, historyIndex, bs, zoomedBulletId),
                      emitEvent(Em0, "bullet_indented",
                                [id |-> id, fromParentId |-> ParentIdOf(bullets, p),
                                 fromIndex |-> LastIdx(p) - 1,
                                 toParentId |-> NodeAt(bullets, prevPath).id,
                                 toIndex |-> Len(ChildrenAt(bs, prevPath)) - 1], now),
                      nextId,
                      [Res("indentBullet", TRUE, "", Null) EXCEPT !.id = id,
                                                                 !.before = bullets])

\* the bullet lands in front of its former parent
outdentTreeBefore(bs, p, pp) ==
  insertChildAt(detach(bs, p), ParentPath(pp), LastIdx(pp) - 1, NodeAt(bs, p))

\* the tree after outdentBullet moved the bullet at path p behind the bullet at pp
outdentTreeAtEnd(bs, p, pp) ==
  insertChildAt(detach(bs, p), ParentPath(pp),
                Len(ChildrenAt(bs, ParentPath(pp))), NodeAt(bs, p))

outdentTree(bs, p, pp) ==
  insertChildAt(detach(bs, p), ParentPath(pp), LastIdx(pp), NodeAt(bs, p))

OutdentBullet(id, now) ==
  LET p == findBulletWithContext(id, bullets)
  IN /\ CanIssue
     /\ IF p = <<>> \/ Len(p) = 1 THEN Same(Res("outdentBullet", FALSE, "", Null))
        ELSE LET parent == NodeAt(bullets, ParentPath(p))
                 pp == findBulletWithContext(parent.id, bullets)
                 bs == outdentTree(bullets, p, pp)
             IN Apply(bs, zoomedBulletId,
                      saveToHistory(history, historyIndex, bs, zoomedBulletId),
                      emitEvent(Em0, "bullet_outdented",
                                [id |-> id, fromParentId |-> parent.id,
                                 fromIndex |-> LastIdx(p) - 1,
                                 toParentId |-> ParentIdOf(bullets, pp),
                                 toIndex |-> LastIdx(pp)], now),
                      nextId, [Res("outdentBullet", TRUE, "", Null) EXCEPT !.id = id])

CreatedPayload(b, parentId, index) ==
  [id |-> b.id, parentId |-> parentId, index |-> index, content |-> b.content,
   context |-> b.context, collapsed |-> b.collapsed, createdAt |-> b.createdAt]

CreateAndInsertBullet(afterId, asChild, now) ==
  LET p == findBulletWithContext(afterId, bullets)
      newBullet == NewBullet(nextId, now)
  IN /\ CanIssue
     /\ IF p = <<>> THEN Same(Res("createAndInsertBullet", FALSE, "", Null))
        ELSE LET bs == IF asChild THEN insertChildAt(bullets, p, 0, newBullet)
                       ELSE insertChildAt(bullets, ParentPath(p), LastIdx(p), newBullet)
                 parentId == IF asChild THEN NodeAt(bullets, p).id
                             ELSE ParentIdOf(bullets, p)
                 insertIndex == IF asChild THEN 0 ELSE LastIdx(p)
             IN Apply(bs, zoomedBulletId,
                      saveToHistory(history, historyIndex, bs, zoomedBulletId),
                      emitEvent(Em0, "bullet_created",
                                CreatedPayload(newBullet, parentId, insertIndex), now),
                      nextId + 1, Res("createAndInsertBullet", TRUE, "", newBullet.id))

\* the new bullet is appended but no event is emitted for it
createEmptyBulletUnrecorded(bs, ppath, em, fresh, now) ==
  [bullets |-> SetChildren(bs, ppath, Append(ChildrenAt(bs, ppath), NewBullet(fresh, now))),
   em |-> em,
   id |-> fresh]

\* createEmptyBullet(parent, options) without its history push:
\* [bullets, em, id] after the new bullet was appended under ppath
createEmptyBullet(bs, ppath, em, fresh, now) ==
  LET newBullet == NewBullet(fresh, now)
      bs1 == SetChildren(bs, ppath, Append(ChildrenAt(bs, ppath), newBullet))
      parentId == IF ppath = <<>> THEN Null ELSE NodeAt(bs, ppath).id
  IN [bullets |-> bs1,
      em |-> emitEvent(em, "bullet_created",
                       CreatedPayload(newBullet, parentId, Len(ChildrenAt(bs1, ppath)) - 1),
                       now),
      id |-> newBullet.id]

CreateEmptyBullet(parentId, skipHistory, now) ==
  LET ppath == IF parentId = Null THEN <<>> ELSE findBulletWithContext(parentId, bullets)
      r == createEmptyBullet(bullets, ppath, Em0, nextId, now)
  IN /\ CanIssue
     /\ parentId # Null => ppath # <<>>
     /\ Apply(r.bullets, zoomedBulletId,
              IF skipHistory THEN Hist0
              ELSE saveToHistory(history, historyIndex, r.bullets, zoomedBulletId),
              r.em, nextId + 1, Res("createEmptyBullet", TRUE, "", r.id))

\* removeChild(id): the first child with this id leaves the list owned by ppath
removeChild(bs, ppath, id) ==
  LET kids == ChildrenAt(bs, ppath)
  IN IF IndexOf([i \in 1..Len(kids) |-> kids[i].id], id) = 0 THEN bs
     ELSE SetChildren(bs, ppath,
                      RemoveAt(kids, IndexOf([i \in 1..Len(kids) |-> kids[i].id], id)))

\* the list the view shows: the zoomed bullet's children, else the roots
filteredBullets(bs, z) ==
  IF z # Null /\ findBulletWithContext(z, bs) # <<>>
  THEN NodeAt(bs, findBulletWithContext(z, bs)).children
  ELSE bs

\* which branch of deleteBullet runs for the bullet at path p
deleteBranch(bs, z, p, id) ==
  LET zp == IF z = Null THEN <<>> ELSE findBulletWithContext(z, bs)
  IN IF z # Null
     THEN IF zp # <<>> /\ Len(NodeAt(bs, zp).children) = 1
                /\ NodeAt(bs, zp).children[1].id = id
          THEN "zoomed-sole" ELSE "normal"
     ELSE IF Len(bs) = 1 /\ bs[1].id = id THEN "root-sole" ELSE "normal"

\* what deleteBullet leaves behind and returns, as the arguments of Apply
deleteBullet(id, skipConfirmation, now) ==
  LET p == findBulletWithContext(id, bullets)
      unchanged(res) == [bullets |-> bullets, hist |-> Hist0, em |-> Em0, fresh |-> nextId,
                         res |-> res]
  IN IF p = <<>> THEN unchanged(Res("deleteBullet", FALSE, "", Null))
     ELSE IF Len(NodeAt(bullets, p).children) > 0 /\ ~skipConfirmation
     THEN unchanged(Res("deleteBullet", FALSE, "hasChildren", Null))
     ELSE
       LET deletionPayload == [id |-> id, parentId |-> ParentIdOf(bullets, p),
                               index |-> LastIdx(p) - 1]
           branch == deleteBranch(bullets, zoomedBulletId, p, id)
           zp == findBulletWithContext(zoomedBulletId, bullets)
           em1 == emitEvent(Em0, "bullet_deleted", deletionPayload, now)
       IN CASE branch = "zoomed-sole" ->
                 LET r == createEmptyBullet(removeChild(bullets, zp, id), zp, em1,
                                            nextId, now)
                 IN [bullets |-> r.bullets,
                     hist |-> saveToHistory(history, historyIndex, r.bullets,
                                            zoomedBulletId),
                     em |-> r.em, fresh |-> nextId + 1,
                     res |-> [Res("deleteBullet", TRUE, "", r.id) EXCEPT !.id = id]]
            [] branch = "root-sole" ->
                 LET r == createEmptyBullet(RemoveAt(bullets, 1), <<>>, em1, nextId, now)
                 IN [bullets |-> r.bullets,
                     hist |-> saveToHistory(history, historyIndex, r.bullets,
                                            zoomedBulletId),
                     em |-> r.em, fresh |-> nextId + 1,
                     res |-> [Res("deleteBullet", TRUE, "", r.id) EXCEPT !.id = id]]
            [] OTHER ->
                 LET bs == removeChild(bullets, ParentPath(p), id)
                 IN [bullets |-> bs,
                     hist |-> saveToHistory(history, historyIndex, bs, zoomedBulletId),
                     em |-> em1, fresh |-> nextId,
                     res |-> [Res("deleteBullet", TRUE, "", Null) EXCEPT !.id = id]]

DeleteBullet(id, skipConfirmation, now) ==
  LET r == deleteBullet(id, skipConfirmation, now)
  IN /\ CanIssue
     /\ Apply(r.bullets, zoomedBulletId, r.hist, r.em, r.fresh, r.res)

ZoomToBullet(id, now) ==
  LET p == IF id = Null THEN <<>> ELSE findBulletWithContext(id, bullets)
      grow == p # <<>> /\ Len(NodeAt(bullets, p).children) = 0
      r == IF grow THEN createEmptyBullet(bullets, p, Em0, nextId, now)
           ELSE [bullets |-> bullets, em |-> Em0, id |-> Null]
  IN /\ CanIssue
     /\ Apply(r.bullets, id, saveToHistory(history, historyIndex, r.bullets, id), r.em,
              IF grow THEN nextId + 1 ELSE nextId, Res("zoomToBullet", TRUE, "", r.id))

ZoomOut ==
  LET p == findBulletWithContext(zoomedBulletId, bullets)
      z == IF Len(p) > 1 THEN NodeAt(bullets, ParentPath(p)).id ELSE Null
  IN /\ CanIssue
     /\ IF zoomedBulletId = Null THEN Same(Res("zoomOut", FALSE, "", Null))
        ELSE Apply(bullets, z, saveToHistory(history, historyIndex, bullets, z), Em0,
                   nextId, Res("zoomOut", TRUE, "", Null))

SetZoomedBulletId(id) ==
  /\ CanIssue
  /\ Apply(bullets, id, Hist0, Em0, nextId, Res("setZoomedBulletId", TRUE, "", Null))

\* the tree after the bullet at path p was detached and spliced back at 0-based k
moveTree(bs, p, k) == insertChildAt(detach(bs, p), ParentPath(p), k, NodeAt(bs, p))

MoveBulletUp(id, now) ==
  LET p == findBulletWithContext(id, bullets)
  IN /\ CanIssue
     /\ IF p = <<>> \/ LastIdx(p) = 1 THEN Same(Res("moveBulletUp", FALSE, "", Null))
        ELSE LET bs == moveTree(bullets, p, LastIdx(p) - 2)
             IN Apply(bs, zoomedBulletId,
                      saveToHistory(history, historyIndex, bs, zoomedBulletId),
                      emitEvent(Em0, "bullet_moved",
                                [id |-> id, parentId |-> ParentIdOf(bullets, p),
                                 fromIndex |-> LastIdx(p) - 1,
                                 toIndex |-> LastIdx(p) - 2], now),
                      nextId, Res("moveBulletUp", TRUE, "", Null))

MoveBulletDown(id, now) ==
  LET p == findBulletWithContext(id, bullets)
  IN /\ CanIssue
     /\ IF p = <<>> \/ LastIdx(p) >= Len(ChildrenAt(bullets, ParentPath(p)))
        THEN Same(Res("moveBulletDown", FALSE, "", Null))
        ELSE LET bs == moveTree(bullets, p, LastIdx(p))
             IN Apply(bs, zoomedBulletId,
                      saveToHistory(history, historyIndex, bs, zoomedBulletId),
                      emitEvent(Em0, "bullet_moved",
                                [id |-> id, parentId |-> ParentIdOf(bullets, p),
                                 fromIndex |-> LastIdx(p) - 1,
                                 toIndex |-> LastIdx(p)], now),
                      nextId, Res("moveBulletDown", TRUE, "", Null))

UndoKeepsZoom ==
  /\ CanIssue
  /\ IF historyIndex > 0
     THEN Apply(history[historyIndex].bullets, zoomedBulletId,
                [history |-> history, historyIndex |-> historyIndex - 1], Em0, nextId,
                Res("undo", TRUE, "", Null))
     ELSE Same(Res("undo", FALSE, "", Null))

Undo ==
  /\ CanIssue
  /\ IF historyIndex > 0
     THEN Apply(history[historyIndex].bullets, history[historyIndex].zoomedBulletId,
                [history |-> history, historyIndex |-> historyIndex - 1], Em0, nextId,
                Res("undo", TRUE, "", Null))
     ELSE Same(Res("undo", FALSE, "", Null))

Redo ==
  /\ CanIssue
  /\ IF historyIndex < Len(history) - 1
     THEN Apply(history[historyIndex + 2].bullets, history[historyIndex + 2].zoomedBulletId,
                [history |-> history, historyIndex |-> historyIndex + 1], Em0, nextId,
                Res("redo", TRUE, "", Null))
     ELSE Same(Res("redo", FALSE, "", Null))

-----------------------------------------------------------------------------
(* importData / resetToDefault *)

\* import documents: valid is FALSE for text that is not JSON with a bullets
\* array; a raw bullet lists in 'missing' the fields the document leaves out
Raw(id, missing, checked, children) ==
  [id |-> id, missing |-> missing, content |-> "x", context |-> "n",
   collapsed |-> TRUE, checked |-> checked, createdAt |-> 1, children |-> children]

ImportInputs ==
  { [valid |-> FALSE, bullets |-> <<>>],
    [valid |-> TRUE, bullets |-> <<>>],
    [valid |-> TRUE, bullets |-> <<Raw(91, {}, TRUE, <<>>)>>],
    [valid |-> TRUE, bullets |-> <<Raw(91, {"id"}, FALSE, <<>>)>>],
    [valid |-> TRUE,
     bullets |-> <<Raw(91, {"content", "context", "collapsed", "checked", "createdAt"},
                       FALSE, <<Raw(92, {"children"}, FALSE, <<>>)>>)>>],
    [valid |-> TRUE,
     bullets |-> <<Raw(91, {}, FALSE, <<>>), Raw(91, {"context"}, FALSE, <<>>)>>] }

RECURSIVE normalizePersistedBullet(_, _)
normalizePersistedBullet(b, now) ==
  [id |-> IF "id" \in b.missing THEN Null ELSE b.id,
   content |-> IF "content" \in b.missing THEN "" ELSE b.content,
   context |-> IF "context" \in b.missing THEN "" ELSE b.context,
   collapsed |-> IF "collapsed" \in b.missing THEN FALSE ELSE b.collapsed,
   checked |-> IF "checked" \in b.missing THEN FALSE ELSE b.checked,
   createdAt |-> IF "createdAt" \in b.missing THEN now ELSE b.createdAt,
   children |-> IF "children" \in b.missing THEN <<>>
                ELSE [i \in 1..Len(b.children) |->
                        normalizePersistedBullet(b.children[i], now)]]

ReseedTarget ==
  IF currentWorkspace # NoWs THEN currentWorkspace
  ELSE IF Len(workspaces) > 0 THEN workspaces[1].id ELSE "w_default"

\* the tree, history and re-seed common to importData and resetToDefault
ReplaceTree(tree, fresh, now, res) ==
  LET events == createCreationEvents(tree, Null, now, lastTimestamp)
  IN /\ bullets' = tree
     /\ zoomedBulletId' = Null
     /\ history' = <<Snapshot(tree, Null)>>
     /\ historyIndex' = 0
     /\ nextId' = fresh
     /\ result' = res
     /\ cmds' = cmds + 1
     /\ IF storeAvailable
        THEN /\ lastTimestamp' = LastStamp(events, lastTimestamp)
             /\ recordingDepth' = recordingDepth + 1
             /\ inflight' = Append(inflight, Tx("clear", "reseed", ReseedTarget, events))
        ELSE UNCHANGED <<lastTimestamp, recordingDepth, inflight>>
     /\ UNCHANGED <<wsVars, activeWorkspace, dbVars, flow, lockSnapshot, ops, replayed>>

\* data.bullets.map(normalizePersistedBullet)
NormalizedTree(input, now) ==
  [i \in 1..Len(input.bullets) |-> normalizePersistedBullet(input.bullets[i], now)]

\* applySnapshot accepts the records: every bullet has an id
Appliable(input) == input.valid /\ Null \notin Range(IdsOf(NormalizedTree(input, 1)))

ImportData(input, now) ==
  /\ CanIssue
  /\ IF ~input.valid
     THEN Same([Res("importData", FALSE, "", Null) EXCEPT !.doc = input])
     ELSE IF ~Appliable(input)
     THEN \* applySnapshot throws after the zoom focus was reset
          Apply(bullets, Null, Hist0, Em0, nextId,
                [Res("importData", FALSE, "", Null) EXCEPT !.doc = input])
     ELSE ReplaceTree(NormalizedTree(input, now), nextId, now,
                      [Res("importData", TRUE, "", Null) EXCEPT !.doc = input])

ResetToDefault(now) ==
  /\ CanIssue
  /\ ReplaceTree(createWelcomeTree(nextId, now), nextId + 4, now,
                 Res("resetToDefault", TRUE, "", Null))

-----------------------------------------------------------------------------
(* Transactions on the 'events' object store complete in creation order *)

NoFlow == [phase |-> "idle"]

NoLockSnapshot == [taken |-> FALSE]

\* an appendEvent transaction commits
CommitAppend ==
  /\ inflight # <<>>
  /\ Head(inflight).kind = "append"
  /\ dbEvents' = dbEvents \o Head(inflight).events
  /\ inflight' = Tail(inflight)
  /\ UNCHANGED <<treeVars, wsVars, modVars, dbWorkspaces, storeAvailable, hasWindow, flow,
                 lockSnapshot, auxVars>>

\* what runs when replaceEventStoreWithTree resolves inside
\* runWithoutRecordingAsync
ReseedDone ==
  /\ recordingDepth' = recordingDepth - 1
  /\ UNCHANGED <<treeVars, wsVars, lastTimestamp, activeWorkspace, flow, nextId, result>>

\* the end of loadFromEventStore: the tree is applied, the zoom restored
\* when its bullet still exists, the history restarted
FinishLoad(tree) ==
  LET z == IF zoomedBulletId # Null /\ findBulletWithContext(zoomedBulletId, tree) # <<>>
           THEN zoomedBulletId ELSE Null
  IN /\ bullets' = tree
     /\ zoomedBulletId' = z
     /\ history' = <<Snapshot(tree, z)>>
     /\ historyIndex' = 0
     /\ flow' = NoFlow
     /\ result' = [Res(flow.cmd, TRUE, "", Null) EXCEPT !.arg = flow.password,
                                                       !.ws = flow.ws, !.op = ops]

\* the continuation of whoever awaited replaceWorkspaceEvents
AfterReplace(owner) ==
  CASE owner = "reseed" -> ReseedDone
    [] owner = "lock" ->
         /\ flow' = [flow EXCEPT !.phase = "lock-mark"]
         /\ UNCHANGED <<treeVars, wsVars, modVars, nextId, result>>
    [] owner = "unlock" ->
         /\ flow' = [flow EXCEPT !.phase = "unlock-mark"]
         /\ UNCHANGED <<treeVars, wsVars, modVars, nextId, result>>
    [] owner = "load" ->
         /\ FinishLoad(flow.tree)
         /\ UNCHANGED <<wsVars, modVars, nextId>>

\* replaceWorkspaceEvents, first transaction: clearEventsForWorkspace commits;
\* bulkInsertEvents then opens its own transaction
CommitClear ==
  /\ inflight # <<>>
  /\ Head(inflight).kind = "clear"
  /\ dbEvents' = clearEventsForWorkspace(dbEvents, Head(inflight).ws)
  /\ IF Head(inflight).events = <<>>
     THEN inflight' = Tail(inflight) /\ AfterReplace(Head(inflight).owner)
     ELSE /\ inflight' = Append(Tail(inflight),
                           [Head(inflight) EXCEPT
                              !.kind = "insert",
                              !.prev = EventsOf(dbEvents, Head(inflight).ws)])
          /\ UNCHANGED <<treeVars, wsVars, modVars, flow, nextId, result>>
  /\ UNCHANGED <<dbWorkspaces, storeAvailable, hasWindow, lockSnapshot, cmds, ops, replayed>>

\* replaceWorkspaceEvents, second transaction: bulkInsertEvents commits
CommitInsert ==
  /\ inflight # <<>>
  /\ Head(inflight).kind = "insert"
  /\ dbEvents' = bulkInsertEvents(dbEvents, Head(inflight).ws, Head(inflight).events)
  /\ inflight' = Tail(inflight)
  /\ AfterReplace(Head(inflight).owner)
  /\ UNCHANGED <<dbWorkspaces, storeAvailable, hasWindow, lockSnapshot, cmds, ops, replayed>>

-----------------------------------------------------------------------------
(* Password protection *)

MaxOps == 2

MaxLockCmds == 1

Passwords == {"", "p", "q"}

WorkspaceIds == {"w1", "w2"}

\* the passwords a workspace is locked with
LockPasswords == {"p"}

\* what generateSalt, generateRandomVerificationString and the nonce of
\* encryptString may draw
Salts == {1}

VerificationStrings == {"v"}

Ivs == {1}

\* JSON text of an object: its members
JsonStringify(payload) == {<<k, payload[k]>> : k \in DOMAIN payload}

JsonParse(text) ==
  [k \in {kv[1] : kv \in text} |-> (CHOOSE kv \in text : kv[1] = k)[2]]

deriveKey(password, salt) == [password |-> password, salt |-> salt]

\* AES-GCM as an ideal cipher: a ciphertext opens under its key and nonce only
encryptString(key, plaintext, iv) ==
  [ciphertext |-> [key |-> key, iv |-> iv, plaintext |-> plaintext], iv |-> iv]

decryptStringAnyKey(key, data, iv) == [ok |-> TRUE, plaintext |-> data.plaintext]

decryptString(key, data, iv) ==
  IF data.key = key /\ data.iv = iv
  THEN [ok |-> TRUE, plaintext |-> data.plaintext]
  ELSE [ok |-> FALSE]

isEncryptedPayload(payload) == "encrypted" \in DOMAIN payload

parseVerificationPayload(value) ==
  IF value = {} THEN [ok |-> FALSE]
  ELSE [ok |-> TRUE, salt |-> JsonParse(value).salt, iv |-> JsonParse(value).iv,
        data |-> JsonParse(value).data]

StripWs(events) ==
  [i \in 1..Len(events) |->
     [type |-> events[i].type, payload |-> events[i].payload,
      timestamp |-> events[i].timestamp]]

\* the loop of lockWorkspace over the events read
encryptEvents(events, key, iv0) ==
  [i \in 1..Len(events) |->
     IF IsWorkspaceEvent(events[i].type)
     THEN [type |-> events[i].type, payload |-> events[i].payload,
           timestamp |-> events[i].timestamp]
     ELSE [type |-> events[i].type,
           payload |-> [encrypted |-> TRUE, iv |-> iv0 + i,
                        data |-> encryptString(key, JsonStringify(events[i].payload),
                                               iv0 + i).ciphertext],
           timestamp |-> events[i].timestamp]]

\* the loop of unlockWorkspace over the events read
CanDecrypt(e, key) ==
  \/ IsWorkspaceEvent(e.type)
  \/ /\ isEncryptedPayload(e.payload)
     /\ decryptString(key, e.payload.data, e.payload.iv).ok

decryptEvents(events, key) ==
  IF \E i \in 1..Len(events) : ~CanDecrypt(events[i], key) THEN [ok |-> FALSE]
  ELSE [ok |-> TRUE,
        events |-> [i \in 1..Len(events) |->
           IF IsWorkspaceEvent(events[i].type)
           THEN [type |-> events[i].type, payload |-> events[i].payload,
                 timestamp |-> events[i].timestamp]
           ELSE [type |-> events[i].type,
                 payload |-> JsonParse(decryptString(key, events[i].payload.data,
                                                     events[i].payload.iv).plaintext),
                 timestamp |-> events[i].timestamp]]]

HasRecord(records, id) == \E i \in 1..Len(records) : records[i].id = id

getWorkspaceRecord(records, id) ==
  records[CHOOSE i \in 1..Len(records) : records[i].id = id]

updateWorkspaceLockState(records, id, locked, lockTestName, lockTestValue) ==
  [i \in 1..Len(records) |->
     IF records[i].id = id
     THEN [records[i] EXCEPT !.locked = locked, !.lockTestName = lockTestName,
                             !.lockTestValue = lockTestValue]
     ELSE records[i]]

\* op numbers the operation the outcome belongs to
LockResult(cmd, ok, code, workspaceId, password) ==
  [Res(cmd, ok, code, Null) EXCEPT !.arg = password, !.ws = workspaceId,
                                   !.op = ops + 1]

\* the outcome of a flow that settles after its call
FlowResult(cmd, ok, code, workspaceId, password) ==
  [LockResult(cmd, ok, code, workspaceId, password) EXCEPT !.op = ops]

\* a lock or unlock call that returns or throws before its first await
Settle(res) ==
  /\ result' = res
  /\ UNCHANGED <<treeVars, wsVars, modVars, dbVars, asyncVars, nextId, cmds, replayed>>

CanStart == flow.phase = "idle" /\ ops < MaxOps

LockWorkspaceAgain(workspaceId, password) ==
  /\ CanStart
  /\ ops' = ops + 1
  /\ IF workspaceId = NoWs
     THEN Settle(LockResult("lockWorkspace", TRUE, "", workspaceId, password))
     ELSE IF ~HasRecord(workspaces, workspaceId)
     THEN Settle(LockResult("lockWorkspace", FALSE, "WORKSPACE_NOT_FOUND",
                            workspaceId, password))
     ELSE IF password = ""
     THEN Settle(LockResult("lockWorkspace", FALSE, "WORKSPACE_PASSWORD_REQUIRED",
                            workspaceId, password))
     ELSE IF ~storeAvailable
     THEN Settle(LockResult("lockWorkspace", FALSE, "EVENT_STORE_UNAVAILABLE",
                            workspaceId, password))
     ELSE /\ inflight' = Append(inflight, Tx("read", "lock", workspaceId, <<>>))
          /\ flow' = [phase |-> "lock-read", cmd |-> "lockWorkspace",
                      ws |-> workspaceId, password |-> password]
          /\ lockSnapshot' = [taken |-> TRUE, ws |-> workspaceId, password |-> password,
                              bullets |-> bullets,
                              events |-> StripWs(getAllEvents(dbEvents, workspaceId)),
                              quiet |-> inflight = <<>>,
                              active |-> currentWorkspace = workspaceId,
                              cmds |-> cmds, ops |-> ops]
          /\ result' = LockResult("lockWorkspace", FALSE, "pending", workspaceId, password)
          /\ UNCHANGED <<treeVars, wsVars, modVars, dbVars, nextId, cmds, replayed>>

LockWorkspace(workspaceId, password) ==
  /\ CanStart
  /\ ops' = ops + 1
  /\ IF workspaceId = NoWs
     THEN Settle(LockResult("lockWorkspace", TRUE, "", workspaceId, password))
     ELSE IF ~HasRecord(workspaces, workspaceId)
     THEN Settle(LockResult("lockWorkspace", FALSE, "WORKSPACE_NOT_FOUND",
                            workspaceId, password))
     ELSE IF password = ""
     THEN Settle(LockResult("lockWorkspace", FALSE, "WORKSPACE_PASSWORD_REQUIRED",
                            workspaceId, password))
     ELSE IF getWorkspaceRecord(workspaces, workspaceId).locked
     THEN Settle(LockResult("lockWorkspace", TRUE, "", workspaceId, password))
     ELSE IF ~storeAvailable
     THEN Settle(LockResult("lockWorkspace", FALSE, "EVENT_STORE_UNAVAILABLE",
                            workspaceId, password))
     ELSE /\ inflight' = Append(inflight, Tx("read", "lock", workspaceId, <<>>))
          /\ flow' = [phase |-> "lock-read", cmd |-> "lockWorkspace",
                      ws |-> workspaceId, password |-> password]
          /\ lockSnapshot' = [taken |-> TRUE, ws |-> workspaceId, password |-> password,
                              bullets |-> bullets,
                              events |-> StripWs(getAllEvents(dbEvents, workspaceId)),
                              quiet |-> inflight = <<>>,
                              active |-> currentWorkspace = workspaceId,
                              cmds |-> cmds, ops |-> ops]
          /\ result' = LockResult("lockWorkspace", FALSE, "pending", workspaceId, password)
          /\ UNCHANGED <<treeVars, wsVars, modVars, dbVars, nextId, cmds, replayed>>

\* getAllEvents resolves for lockWorkspace
CommitLockRead ==
  /\ inflight # <<>>
  /\ Head(inflight).kind = "read"
  /\ Head(inflight).owner = "lock"
  /\ inflight' = Tail(inflight)
  /\ flow' = [phase |-> "lock-encrypt", cmd |-> flow.cmd, ws |-> flow.ws,
              password |-> flow.password,
              events |-> getAllEvents(dbEvents, flow.ws)]
  /\ UNCHANGED <<treeVars, wsVars, modVars, dbVars, lockSnapshot, auxVars>>

\* key derivation and encryption done, replaceWorkspaceEvents called
LockEncrypt ==
  /\ flow.phase = "lock-encrypt"
  /\ \E salt \in Salts, verificationName \in VerificationStrings, iv \in Ivs :
       LET key == deriveKey(flow.password, salt)
       IN /\ inflight' = Append(inflight, Tx("clear", "lock", flow.ws,
                                             encryptEvents(flow.events, key, iv)))
          /\ flow' = [phase |-> "lock-replace", cmd |-> flow.cmd, ws |-> flow.ws,
                      password |-> flow.password, events |-> flow.events,
                      salt |-> salt, verificationName |-> verificationName,
                      verificationEncrypted |-> encryptString(key, verificationName, iv)]
  /\ UNCHANGED <<treeVars, wsVars, modVars, dbVars, lockSnapshot, auxVars>>

SetLocal(records, id, locked, lockTestName, lockTestValue) ==
  updateWorkspaceLockState(records, id, locked, lockTestName, lockTestValue)

\* updateWorkspaceLockState resolves for lockWorkspace
LockMark ==
  /\ flow.phase = "lock-mark"
  /\ LET value == JsonStringify([salt |-> flow.salt,
                                 iv |-> flow.verificationEncrypted.iv,
                                 data |-> flow.verificationEncrypted.ciphertext])
     IN /\ dbWorkspaces' = updateWorkspaceLockState(dbWorkspaces, flow.ws, TRUE,
                                                    flow.verificationName, value)
        /\ workspaces' = SetLocal(workspaces, flow.ws, TRUE, flow.verificationName, value)
  /\ IF currentWorkspace = flow.ws
     THEN /\ lockedWorkspaceId' = flow.ws
          /\ zoomedBulletId' = Null
          /\ bullets' = <<>>
          /\ history' = <<>>
          /\ historyIndex' = -1
     ELSE UNCHANGED <<lockedWorkspaceId, treeVars>>
  /\ flow' = NoFlow
  /\ result' = FlowResult("lockWorkspace", TRUE, "", flow.ws, flow.password)
  /\ UNCHANGED <<currentWorkspace, modVars, dbEvents, storeAvailable, hasWindow, inflight,
                 lockSnapshot, nextId, cmds, ops, replayed>>

UnlockWorkspace(workspaceId, password) ==
  /\ CanStart
  /\ ops' = ops + 1
  /\ IF ~HasRecord(workspaces, workspaceId)
     THEN Settle(LockResult("unlockWorkspace", FALSE, "WORKSPACE_NOT_FOUND",
                            workspaceId, password))
     ELSE IF ~getWorkspaceRecord(workspaces, workspaceId).locked
     THEN Settle(LockResult("unlockWorkspace", TRUE, "", workspaceId, password))
     ELSE IF password = ""
     THEN Settle(LockResult("unlockWorkspace", FALSE, "WORKSPACE_PASSWORD_REQUIRED",
                            workspaceId, password))
     ELSE IF ~storeAvailable
     THEN Settle(LockResult("unlockWorkspace", FALSE, "EVENT_STORE_UNAVAILABLE",
                            workspaceId, password))
     ELSE
       LET target == getWorkspaceRecord(workspaces, workspaceId)
           persisted == IF HasRecord(dbWorkspaces, workspaceId)
                        THEN getWorkspaceRecord(dbWorkspaces, workspaceId)
                        ELSE target
           verificationName == IF persisted.lockTestName # "" THEN persisted.lockTestName
                               ELSE target.lockTestName
           verificationPayload ==
             parseVerificationPayload(IF persisted.lockTestValue # {}
                                      THEN persisted.lockTestValue
                                      ELSE target.lockTestValue)
           key == deriveKey(password, verificationPayload.salt)
           verificationResult ==
             decryptString(key, verificationPayload.data, verificationPayload.iv)
       IN IF verificationName = "" \/ ~verificationPayload.ok
          THEN Settle(LockResult("unlockWorkspace", FALSE,
                                 "WORKSPACE_LOCK_METADATA_MISSING", workspaceId, password))
          ELSE IF ~verificationResult.ok
          THEN Settle(LockResult("unlockWorkspace", FALSE, "WORKSPACE_UNLOCK_FAILED",
                                 workspaceId, password))
          ELSE IF verificationResult.plaintext # verificationName
          THEN Settle(LockResult("unlockWorkspace", FALSE, "WORKSPACE_UNLOCK_FAILED",
                                 workspaceId, password))
          ELSE /\ inflight' = Append(inflight, Tx("read", "unlock", workspaceId, <<>>))
               /\ flow' = [phase |-> "unlock-read", cmd |-> "unlockWorkspace",
                           ws |-> workspaceId, password |-> password, key |-> key]
               /\ result' = LockResult("unlockWorkspace", FALSE, "pending",
                                       workspaceId, password)
               /\ UNCHANGED <<treeVars, wsVars, modVars, dbVars, lockSnapshot, nextId,
                              cmds, replayed>>

\* getAllEvents resolves for unlockWorkspace; the payloads are decrypted and
\* replaceWorkspaceEvents called, or the first payload that does not open
\* rejects the unlock
CommitUnlockRead ==
  /\ inflight # <<>>
  /\ Head(inflight).kind = "read"
  /\ Head(inflight).owner = "unlock"
  /\ LET d == decryptEvents(getAllEvents(dbEvents, flow.ws), flow.key)
     IN IF d.ok
        THEN /\ inflight' = Append(Tail(inflight), Tx("clear", "unlock", flow.ws, d.events))
             /\ flow' = [flow EXCEPT !.phase = "unlock-replace"]
             /\ UNCHANGED result
        ELSE /\ inflight' = Tail(inflight)
             /\ flow' = NoFlow
             /\ result' = FlowResult("unlockWorkspace", FALSE, "WORKSPACE_UNLOCK_FAILED",
                                     flow.ws, flow.password)
  /\ UNCHANGED <<treeVars, wsVars, modVars, dbVars, lockSnapshot, nextId, cmds, ops,
                 replayed>>

\* the part of loadFromEventStore before its first await
StartLoad(workspaceId, records, cmd, password) ==
  /\ activeWorkspace' = workspaceId
  /\ currentWorkspace' = workspaceId
  /\ IF HasRecord(records, workspaceId) /\ getWorkspaceRecord(records, workspaceId).locked
     THEN /\ lockedWorkspaceId' = workspaceId
          /\ zoomedBulletId' = Null
          /\ bullets' = <<>>
          /\ history' = <<>>
          /\ historyIndex' = -1
          /\ flow' = NoFlow
          /\ result' = FlowResult(cmd, TRUE, "", workspaceId, password)
          /\ UNCHANGED inflight
     ELSE /\ lockedWorkspaceId' = NoWs
          /\ inflight' = Append(inflight, Tx("read", "load", workspaceId, <<>>))
          /\ flow' = [phase |-> "load-read", cmd |-> cmd, ws |-> workspaceId,
                      password |-> password]
          /\ result' = FlowResult(cmd, FALSE, "pending", workspaceId, password)
          /\ UNCHANGED treeVars

\* updateWorkspaceLockState resolves for unlockWorkspace
UnlockMark ==
  /\ flow.phase = "unlock-mark"
  /\ dbWorkspaces' = updateWorkspaceLockState(dbWorkspaces, flow.ws, FALSE, "", {})
  /\ workspaces' = SetLocal(workspaces, flow.ws, FALSE, "", {})
  /\ IF currentWorkspace = flow.ws
     THEN StartLoad(flow.ws, workspaces', "unlockWorkspace", flow.password)
     ELSE /\ lockedWorkspaceId' = IF lockedWorkspaceId = flow.ws THEN NoWs
                                  ELSE lockedWorkspaceId
          /\ flow' = NoFlow
          /\ result' = FlowResult("unlockWorkspace", TRUE, "", flow.ws, flow.password)
          /\ UNCHANGED <<treeVars, currentWorkspace, activeWorkspace, inflight>>
  /\ UNCHANGED <<recordingDepth, lastTimestamp, dbEvents, storeAvailable, hasWindow, lockSnapshot,
                 nextId, cmds, ops, replayed>>

MaxTimestamp(events, last) ==
  IF events = <<>> THEN last
  ELSE Max(last, CHOOSE t \in {events[i].timestamp : i \in 1..Len(events)} :
                   \A i \in 1..Len(events) : events[i].timestamp <= t)

\* getAllEvents resolves for loadFromEventStore
CommitLoadRead ==
  /\ inflight # <<>>
  /\ Head(inflight).kind = "read"
  /\ Head(inflight).owner = "load"
  /\ LET events == getAllEvents(dbEvents, flow.ws)
         latest == MaxTimestamp(events, lastTimestamp)
         bulletEvents == BulletEvents(events)
         workspaceEvents == StripWs(WorkspaceEvents(events))
     IN IF bulletEvents # <<>>
        THEN /\ lastTimestamp' = latest
             /\ inflight' = Tail(inflight)
             /\ IF \E i \in 1..Len(bulletEvents) : isEncryptedPayload(bulletEvents[i].payload)
                THEN \* the replayed node has no id and applySnapshot throws
                     /\ zoomedBulletId' = Null
                     /\ flow' = NoFlow
                     /\ result' = FlowResult(flow.cmd, FALSE, "LOAD_FAILED", flow.ws,
                                             flow.password)
                     /\ UNCHANGED <<bullets, history, historyIndex>>
                ELSE FinishLoad(replayEvents(bulletEvents))
             /\ UNCHANGED nextId
        ELSE \E now \in Clock :
               LET tree == IF workspaceEvents # <<>>
                           THEN createBlankWorkspaceTree(nextId, now)
                           ELSE createWelcomeTree(nextId, now)
                   creation == createCreationEvents(tree, Null, now, latest)
               IN /\ lastTimestamp' = LastStamp(creation, latest)
                  /\ nextId' = nextId + Len(IdsOf(tree))
                  /\ inflight' = Append(Tail(inflight),
                                        Tx("clear", "load", flow.ws,
                                           workspaceEvents \o creation))
                  /\ flow' = [phase |-> "load-seed", cmd |-> flow.cmd, ws |-> flow.ws,
                              password |-> flow.password, tree |-> tree]
                  /\ UNCHANGED <<treeVars, result>>
  /\ UNCHANGED <<wsVars, recordingDepth, activeWorkspace, dbVars, lockSnapshot, cmds, ops,
                 replayed>>

\* a storage step rejects: the transaction at the head of the queue aborts.
\* appendEvent's rejection is logged and dropped; a flow awaiting the
\* transaction rethrows
FailTx ==
  /\ inflight # <<>>
  /\ Head(inflight).owner # "load"
  /\ ops < MaxOps
  /\ ops' = ops + 1
  /\ inflight' = Tail(inflight)
  /\ CASE Head(inflight).owner = "emit" ->
            UNCHANGED <<recordingDepth, flow, result>>
       [] Head(inflight).owner = "reseed" ->
            /\ recordingDepth' = recordingDepth - 1
            /\ UNCHANGED <<flow, result>>
       [] Head(inflight).owner = "lock" ->
            /\ flow' = NoFlow
            /\ result' = FlowResult("lockWorkspace", FALSE, "", flow.ws, flow.password)
            /\ UNCHANGED recordingDepth
       [] Head(inflight).owner = "unlock" ->
            /\ flow' = NoFlow
            /\ result' = FlowResult("unlockWorkspace", FALSE, "WORKSPACE_UNLOCK_FAILED",
                                    flow.ws, flow.password)
            /\ UNCHANGED recordingDepth
  /\ UNCHANGED <<treeVars, wsVars, lastTimestamp, activeWorkspace, dbVars, lockSnapshot,
                 nextId, cmds, replayed>>

NameOrder(name) == IF name = "Default" THEN 1 ELSE 2

RECURSIVE SortRecords(_)
SortRecords(records) ==
  IF records = <<>> THEN <<>>
  ELSE LET k == CHOOSE i \in 1..Len(records) :
                  \A j \in 1..Len(records) :
                    \/ records[i].createdAt < records[j].createdAt
                    \/ /\ records[i].createdAt = records[j].createdAt
                       /\ \/ NameOrder(records[i].name) < NameOrder(records[j].name)
                          \/ /\ NameOrder(records[i].name) = NameOrder(records[j].name)
                             /\ i <= j
       IN <<records[k]>> \o SortRecords(RemoveAt(records, k))

RECURSIVE SortByCreatedAt(_)
SortByCreatedAt(records) ==
  IF records = <<>> THEN <<>>
  ELSE LET k == CHOOSE i \in 1..Len(records) :
                  /\ \A j \in 1..Len(records) : records[i].createdAt <= records[j].createdAt
                  /\ \A j \in 1..(i - 1) : records[j].createdAt # records[i].createdAt
       IN <<records[k]>> \o SortByCreatedAt(RemoveAt(records, k))

\* WorkspaceModel.create(record): the lock fields take their defaults when the
\* record does not carry them
WorkspaceModel(id, name, createdAt, updatedAt) ==
  [id |-> id, name |-> name, createdAt |-> createdAt, updatedAt |-> updatedAt,
   locked |-> FALSE, lockTestName |-> "", lockTestValue |-> {}]

\* listWorkspaces with the store available: every stored record is rebuilt
\* as {id, name, createdAt, updatedAt}, then the list is sorted by createdAt
listWorkspaces(records) ==
  SortByCreatedAt([i \in 1..Len(records) |->
                     WorkspaceModel(records[i].id, records[i].name,
                                    records[i].createdAt, records[i].updatedAt)])

\* self.workspaces after applyWorkspaceRecords(records)
applyWorkspaceRecords(records) == SortRecords(records)

\* updateWorkspaceLockState rejects: the flow rethrows, nothing is undone
FailMark ==
  /\ flow.phase \in {"lock-mark", "unlock-mark"}
  /\ ops < MaxOps
  /\ ops' = ops + 1
  /\ flow' = NoFlow
  /\ result' = FlowResult(flow.cmd, FALSE,
                          IF flow.cmd = "unlockWorkspace" THEN "WORKSPACE_UNLOCK_FAILED"
                          ELSE "", flow.ws, flow.password)
  /\ UNCHANGED <<treeVars, wsVars, modVars, dbVars, inflight, lockSnapshot, nextId, cmds,
                 replayed>>

\* the process stops and the page is opened again: the queue and the memory
\* are lost, initializeStore and bootstrap run up to the first await of
\* loadFromEventStore
Restart ==
  /\ ops < MaxOps
  /\ ops' = ops + 1
  /\ storeAvailable
  /\ dbWorkspaces # <<>>
  /\ workspaces' = applyWorkspaceRecords(listWorkspaces(dbWorkspaces))
  /\ recordingDepth' = 0
  /\ lastTimestamp' = 0
  /\ activeWorkspace' = workspaces'[1].id
  /\ currentWorkspace' = workspaces'[1].id
  /\ bullets' = <<>>
  /\ zoomedBulletId' = Null
  /\ history' = <<>>
  /\ historyIndex' = -1
  /\ IF workspaces'[1].locked
     THEN /\ lockedWorkspaceId' = workspaces'[1].id
          /\ inflight' = <<>>
          /\ flow' = NoFlow
          /\ result' = LockResult("bootstrap", TRUE, "", workspaces'[1].id, "")
     ELSE /\ lockedWorkspaceId' = NoWs
          /\ inflight' = <<Tx("read", "load", workspaces'[1].id, <<>>)>>
          /\ flow' = [phase |-> "load-read", cmd |-> "bootstrap",
                      ws |-> workspaces'[1].id, password |-> ""]
          /\ result' = LockResult("bootstrap", FALSE, "pending", workspaces'[1].id, "")
  /\ UNCHANGED <<dbVars, lockSnapshot, nextId, cmds, replayed>>

\* the records left by workspaceStore.delete(id)
WithoutRecord(records, id) == SelectSeq(records, LAMBDA r : r.id # id)

\* the second half of applyWorkspaceRecords: lockedWorkspaceId survives only
\* while its record is locked
LockedAfterApply(records, lockedId) ==
  IF /\ lockedId # NoWs
     /\ ~\E i \in 1..Len(records) : records[i].id = lockedId /\ records[i].locked
  THEN NoWs ELSE lockedId

WorkspaceNames == {"", "Work"}

\* loadFromEventStore(workspaceId) while isEventStoreAvailable() is false,
\* called with self.workspaces = records and lockedWorkspaceId = lockedId:
\* nothing is awaited and the flow runs to its end
LoadInMemory(workspaceId, records, lockedId, now, res) ==
  /\ workspaces' = records
  /\ result' = res
  /\ IF ~hasWindow
     THEN /\ lockedWorkspaceId' = lockedId
          /\ UNCHANGED <<treeVars, currentWorkspace, activeWorkspace, nextId>>
     ELSE /\ activeWorkspace' = workspaceId
          /\ currentWorkspace' = workspaceId
          /\ IF HasRecord(records, workspaceId)
                /\ getWorkspaceRecord(records, workspaceId).locked
             THEN /\ lockedWorkspaceId' = workspaceId
                  /\ zoomedBulletId' = Null
                  /\ bullets' = <<>>
                  /\ history' = <<>>
                  /\ historyIndex' = -1
                  /\ UNCHANGED nextId
             ELSE LET tree == createWelcomeTree(nextId, now)
                      z == IF /\ zoomedBulletId # Null
                              /\ findBulletWithContext(zoomedBulletId, tree) # <<>>
                           THEN zoomedBulletId ELSE Null
                  IN /\ lockedWorkspaceId' = NoWs
                     /\ bullets' = tree
                     /\ zoomedBulletId' = z
                     /\ history' = <<Snapshot(tree, z)>>
                     /\ historyIndex' = 0
                     /\ nextId' = nextId + Len(IdsOf(tree))
  /\ UNCHANGED <<recordingDepth, lastTimestamp, dbVars, asyncVars, cmds, replayed>>

\* a workspace command that returns or throws before it changes anything
Returns(res) ==
  /\ result' = res
  /\ UNCHANGED <<treeVars, wsVars, modVars, dbVars, asyncVars, nextId, cmds, replayed>>

\* the fallback record of bootstrap, deleteCurrentWorkspace and
\* deleteAllWorkspaces
DefaultRecord(now) == WorkspaceModel("w_default", "Default", now, now)

\* bootstrap() without IndexedDB, on a store that is not bootstrapped yet
\* (self.workspaces is empty exactly until then)
Bootstrap(now) ==
  /\ ~storeAvailable
  /\ workspaces = <<>>
  /\ ops < MaxOps
  /\ ops' = ops + 1
  /\ LET records == applyWorkspaceRecords(<<DefaultRecord(now)>>)
     IN LoadInMemory(records[1].id, records, LockedAfterApply(records, lockedWorkspaceId),
                     now, LockResult("bootstrap", TRUE, "", records[1].id, ""))

\* selectWorkspace(workspaceId) without IndexedDB
SelectWorkspace(workspaceId, now) ==
  /\ ~storeAvailable
  /\ workspaces # <<>>
  /\ ops < MaxOps
  /\ ops' = ops + 1
  /\ IF workspaceId = currentWorkspace \/ ~HasRecord(workspaces, workspaceId)
     THEN Returns(LockResult("selectWorkspace", TRUE, "", workspaceId, ""))
     ELSE LoadInMemory(workspaceId, workspaces, lockedWorkspaceId, now,
                       LockResult("selectWorkspace", TRUE, "", workspaceId, ""))

\* createWorkspace(workspaceName) without IndexedDB; generateWorkspaceId()
\* yields an id no workspace has
CreateWorkspace(workspaceName, now) ==
  /\ ~storeAvailable
  /\ workspaces # <<>>
  /\ ops < MaxOps
  /\ ops' = ops + 1
  /\ IF workspaceName = ""
     THEN Returns(LockResult("createWorkspace", FALSE, "WORKSPACE_NAME_REQUIRED", NoWs, ""))
     ELSE \E id \in WorkspaceIds :
            /\ ~HasRecord(workspaces, id)
            /\ LET records == applyWorkspaceRecords(
                                Append(workspaces,
                                       WorkspaceModel(id, workspaceName, now, now)))
               IN LoadInMemory(id, records, LockedAfterApply(records, lockedWorkspaceId),
                               now, LockResult("createWorkspace", TRUE, "", id, ""))

\* renameCurrentWorkspace(nextName) without IndexedDB
RenameCurrentWorkspace(nextName, now) ==
  /\ ~storeAvailable
  /\ workspaces # <<>>
  /\ ops < MaxOps
  /\ ops' = ops + 1
  /\ IF currentWorkspace = NoWs \/ ~HasRecord(workspaces, currentWorkspace)
     THEN Returns(LockResult("renameCurrentWorkspace", TRUE, "", currentWorkspace, ""))
     ELSE IF nextName = ""
     THEN Returns(LockResult("renameCurrentWorkspace", FALSE, "WORKSPACE_NAME_REQUIRED",
                             currentWorkspace, ""))
     ELSE IF nextName = getWorkspaceRecord(workspaces, currentWorkspace).name
     THEN Returns(LockResult("renameCurrentWorkspace", TRUE, "", currentWorkspace, ""))
     ELSE LET records == applyWorkspaceRecords(
                           [i \in 1..Len(workspaces) |->
                              IF workspaces[i].id = currentWorkspace
                              THEN [workspaces[i] EXCEPT !.name = nextName,
                                                         !.updatedAt = now]
                              ELSE workspaces[i]])
          IN LoadInMemory(currentWorkspace, records,
                          LockedAfterApply(records, lockedWorkspaceId), now,
                          LockResult("renameCurrentWorkspace", TRUE, "", currentWorkspace, ""))

\* deleteCurrentWorkspace() without IndexedDB
DeleteCurrentWorkspace(now) ==
  /\ ~storeAvailable
  /\ workspaces # <<>>
  /\ ops < MaxOps
  /\ ops' = ops + 1
  /\ IF currentWorkspace = NoWs
     THEN Returns(LockResult("deleteCurrentWorkspace", TRUE, "", NoWs, ""))
     ELSE LET lockedId == IF lockedWorkspaceId = currentWorkspace THEN NoWs
                          ELSE lockedWorkspaceId
              rest == WithoutRecord(workspaces, currentWorkspace)
              records == IF rest = <<>> THEN <<DefaultRecord(now)>> ELSE rest
          IN LoadInMemory(records[1].id, applyWorkspaceRecords(records),
                          LockedAfterApply(records, lockedId), now,
                          LockResult("deleteCurrentWorkspace", TRUE, "", currentWorkspace, ""))

\* deleteAllWorkspaces() without IndexedDB
DeleteAllWorkspaces(now) ==
  /\ ~storeAvailable
  /\ workspaces # <<>>
  /\ ops < MaxOps
  /\ ops' = ops + 1
  /\ LoadInMemory("w_default", applyWorkspaceRecords(<<DefaultRecord(now)>>), NoWs, now,
                  LockResult("deleteAllWorkspaces", TRUE, "", "w_default", ""))

\* deleteWorkspaceRecord(id) called on the event store: without IndexedDB it
\* returns at once, otherwise it opens one transaction over both stores
DeleteWorkspaceRecord(id) ==
  /\ ops < MaxOps
  /\ ops' = ops + 1
  /\ IF ~storeAvailable
     THEN Settle(LockResult("deleteWorkspaceRecord", TRUE, "", id, ""))
     ELSE /\ inflight' = Append(inflight, Tx("delete", "api", id, <<>>))
          /\ result' = LockResult("deleteWorkspaceRecord", FALSE, "pending", id, "")
          /\ UNCHANGED <<treeVars, wsVars, modVars, dbVars, flow, lockSnapshot, nextId,
                         cmds, replayed>>

\* the transaction of deleteWorkspaceRecord runs: an unknown id throws and
\* the transaction aborts, otherwise the record and the events indexed under
\* the id are deleted and the transaction completes
CommitDeleteKeepsEvents ==
  /\ inflight # <<>>
  /\ Head(inflight).kind = "delete"
  /\ inflight' = Tail(inflight)
  /\ IF ~HasRecord(dbWorkspaces, Head(inflight).ws)
     THEN /\ result' = FlowResult("deleteWorkspaceRecord", FALSE, "WORKSPACE_NOT_FOUND",
                                  Head(inflight).ws, "")
          /\ UNCHANGED <<dbEvents, dbWorkspaces>>
     ELSE /\ dbWorkspaces' = WithoutRecord(dbWorkspaces, Head(inflight).ws)
          /\ UNCHANGED dbEvents
          /\ result' = FlowResult("deleteWorkspaceRecord", TRUE, "", Head(inflight).ws, "")
  /\ UNCHANGED <<treeVars, wsVars, modVars, storeAvailable, hasWindow, flow, lockSnapshot,
                 nextId, cmds, ops, replayed>>

CommitDelete ==
  /\ inflight # <<>>
  /\ Head(inflight).kind = "delete"
  /\ inflight' = Tail(inflight)
  /\ IF ~HasRecord(dbWorkspaces, Head(inflight).ws)
     THEN /\ result' = FlowResult("deleteWorkspaceRecord", FALSE, "WORKSPACE_NOT_FOUND",
                                  Head(inflight).ws, "")
          /\ UNCHANGED <<dbEvents, dbWorkspaces>>
     ELSE /\ dbWorkspaces' = WithoutRecord(dbWorkspaces, Head(inflight).ws)
          /\ dbEvents' = clearEventsForWorkspace(dbEvents, Head(inflight).ws)
          /\ result' = FlowResult("deleteWorkspaceRecord", TRUE, "", Head(inflight).ws, "")
  /\ UNCHANGED <<treeVars, wsVars, modVars, storeAvailable, hasWindow, flow, lockSnapshot,
                 nextId, cmds, ops, replayed>>

-----------------------------------------------------------------------------
(* Initial states: a store that finished bootstrap() against an empty       *)
(* database, optionally followed by createWorkspace().                      *)

WsRecord(id, name, now) ==
  [id |-> id, name |-> name, createdAt |-> now, updatedAt |-> now,
   locked |-> FALSE, lockTestName |-> "", lockTestValue |-> {}]

\* after bootstrap(): default workspace w1 seeded with the welcome tree
InitDefault(now) ==
  LET tree == createWelcomeTree(1, now)
      events == createCreationEvents(tree, Null, now, 0)
  IN /\ bullets = tree
     /\ history = <<Snapshot(tree, Null)>>
     /\ workspaces = <<WsRecord("w1", "Default", now)>>
     /\ currentWorkspace = "w1"
     /\ activeWorkspace = "w1"
     /\ lastTimestamp = LastStamp(events, 0)
     /\ dbEvents = WithWs("w1", events)
     /\ dbWorkspaces = <<WsRecord("w1", "Default", now)>>
     /\ nextId = 5

\* after bootstrap() and createWorkspace("Work"): w2 holds its
\* workspace_created event and the blank tree
InitCreated(now, now2) ==
  LET welcome == createCreationEvents(createWelcomeTree(1, now), Null, now, 0)
      t1 == nextTimestamp(now2, LastStamp(welcome, 0))
      created == [type |-> "workspace_created",
                  payload |-> [id |-> "w2", name |-> "Work", createdAt |-> now2],
                  timestamp |-> t1]
      tree == createBlankWorkspaceTree(5, now2)
      events == createCreationEvents(tree, Null, now2, t1)
      records == <<WsRecord("w1", "Default", now), WsRecord("w2", "Work", now2)>>
  IN /\ bullets = tree
     /\ history = <<Snapshot(tree, Null)>>
     /\ workspaces = records
     /\ currentWorkspace = "w2"
     /\ activeWorkspace = "w2"
     /\ lastTimestamp = LastStamp(events, t1)
     /\ dbEvents = WithWs("w1", welcome) \o WithWs("w2", <<created>> \o events)
     /\ dbWorkspaces = records
     /\ nextId = 6

\* after bootstrap() without IndexedDB: the fallback record and the welcome
\* tree, in memory only
InitOffline(now) ==
  /\ bullets = createWelcomeTree(1, now)
  /\ history = <<Snapshot(createWelcomeTree(1, now), Null)>>
  /\ workspaces = <<WorkspaceModel("w_default", "Default", now, now)>>
  /\ currentWorkspace = "w_default"
  /\ activeWorkspace = "w_default"
  /\ lastTimestamp = 0
  /\ dbEvents = <<>>
  /\ dbWorkspaces = <<>>
  /\ nextId = 5
  /\ zoomedBulletId = Null
  /\ historyIndex = 0
  /\ lockedWorkspaceId = NoWs
  /\ recordingDepth = 0
  /\ storeAvailable = FALSE
  /\ hasWindow = TRUE
  /\ inflight = <<>>
  /\ flow = NoFlow
  /\ lockSnapshot = NoLockSnapshot
  /\ cmds = 0
  /\ ops = 0
  /\ result = Res("bootstrap", TRUE, "", Null)
  /\ replayed = <<>>

Init ==
  /\ \E now \in Clock :
       \/ InitDefault(now)
       \/ \E now2 \in Clock : now2 >= now /\ InitCreated(now, now2)
  /\ zoomedBulletId = Null
  /\ historyIndex = 0
  /\ lockedWorkspaceId = NoWs
  /\ recordingDepth = 0
  /\ storeAvailable = TRUE
  /\ hasWindow = TRUE
  /\ inflight = <<>>
  /\ flow = NoFlow
  /\ lockSnapshot = NoLockSnapshot
  /\ cmds = 0
  /\ ops = 0
  /\ result = Res("bootstrap", TRUE, "", Null)
  /\ replayed = <<>>

-----------------------------------------------------------------------------
(* Specifications *)

\* the tree commands
TreeCommand ==
  \E id \in KnownIds, now \in Clock :
    \/ \E content \in Contents : UpdateBulletContent(id, content, now)
    \/ \E context \in Contexts : UpdateBulletContext(id, context, now)
    \/ SetBulletCollapsed(id, TRUE, now)
    \/ ToggleBulletCollapsed(id, now)
    \/ SetBulletChecked(id, TRUE, now)
    \/ ToggleBulletChecked(id, now)
    \/ IndentBullet(id, now)
    \/ OutdentBullet(id, now)
    \/ MoveBulletUp(id, now)
    \/ MoveBulletDown(id, now)
    \/ \E asChild \in BOOLEAN : CreateAndInsertBullet(id, asChild, now)
    \/ CreateEmptyBullet(id, FALSE, now)
    \/ CreateEmptyBullet(Null, FALSE, now)
    \/ DeleteBullet(id, TRUE, now)
    \/ ZoomToBullet(id, now)

NextTree == TreeCommand \/ CommitAppend

SpecTree == Init /\ [][NextTree]_vars

-----------------------------------------------------------------------------
(* The outline view's delete request and the bullet it focuses next *)

RECURSIVE findDeepestLastChild(_)
findDeepestLastChild(bullet) ==
  IF bullet.children = <<>> \/ bullet.collapsed THEN bullet
  ELSE findDeepestLastChild(bullet.children[Len(bullet.children)])

\* the id handed to setFocusedBulletId, <<>> when none is.  siblings is the
\* list findBulletWithContext returned, which deleteBullet splices in place:
\* read after the deletion it is the list without the deleted bullet
focusAfterDelete(before, after, bulletId, newBulletId) ==
  LET p == findBulletWithContext(bulletId, before)
      parentId == ParentIdOf(before, p)
      bulletIndex == LastIdx(p) - 1
      siblingsBefore == ChildrenAt(before, ParentPath(p))
      siblings == ChildrenAt(after, ParentPath(p))
      previousSiblingId == IF bulletIndex > 0 THEN siblingsBefore[bulletIndex].id ELSE Null
      isFirstChild == bulletIndex = 0
      isOnlyChild == Len(siblingsBefore) = 1
      remaining == SelectSeq(siblings, LAMBDA b : b.id # bulletId)
  IN IF newBulletId # Null THEN <<newBulletId>>
     ELSE IF isOnlyChild /\ parentId # Null THEN <<parentId>>
     ELSE IF isFirstChild /\ parentId # Null THEN <<parentId>>
     ELSE IF previousSiblingId # Null
     THEN IF findBulletWithContext(previousSiblingId, after) = <<>> THEN <<>>
          ELSE <<findDeepestLastChild(
                   NodeAt(after, findBulletWithContext(previousSiblingId, after))).id>>
     ELSE IF parentId = Null /\ Len(siblings) > 1 /\ remaining # <<>>
     THEN <<remaining[1].id>>
     ELSE <<>>

\* handleDeleteRequest(bulletId): deleteBullet without skipConfirmation, then
\* the focus; doc holds the focused id
HandleDeleteRequest(bulletId, now) ==
  LET r == deleteBullet(bulletId, FALSE, now)
      focus == IF r.res.ok
               THEN focusAfterDelete(bullets, r.bullets, bulletId, r.res.newId)
               ELSE <<>>
  IN /\ CanIssue
     /\ Apply(r.bullets, zoomedBulletId, r.hist, r.em, r.fresh,
              [r.res EXCEPT !.cmd = "handleDeleteRequest", !.id = bulletId,
                            !.before = bullets, !.doc = focus])

FocusCommand ==
  \E id \in KnownIds, now \in Clock :
    \/ SetBulletCollapsed(id, TRUE, now)
    \/ IndentBullet(id, now)
    \/ OutdentBullet(id, now)
    \/ \E asChild \in BOOLEAN : CreateAndInsertBullet(id, asChild, now)
    \/ ZoomToBullet(id, now)

NextFocus ==
  \/ FocusCommand
  \/ CommitAppend
  \/ \E id \in KnownIds \cup {GhostId}, now \in Clock : HandleDeleteRequest(id, now)

SpecFocus == Init /\ [][NextFocus]_vars

-----------------------------------------------------------------------------
(* The structural commands, called with known and unknown ids *)

StructuralCommand ==
  \E id \in KnownIds \cup {GhostId}, now \in Clock :
    \/ IndentBullet(id, now)
    \/ OutdentBullet(id, now)
    \/ MoveBulletUp(id, now)
    \/ MoveBulletDown(id, now)
    \/ \E skipConfirmation \in BOOLEAN : DeleteBullet(id, skipConfirmation, now)
    \/ \E asChild \in BOOLEAN : CreateAndInsertBullet(id, asChild, now)
    \/ ZoomToBullet(id, now)
    \/ ZoomToBullet(Null, now)

NextCommands == StructuralCommand \/ CommitAppend

SpecCommands == Init /\ [][NextCommands]_vars

\* a document whose records repeat an id
DuplicateIdInput ==
  [valid |-> TRUE,
   bullets |-> <<Raw(91, {}, FALSE, <<>>), Raw(91, {}, FALSE, <<>>),
                 Raw(93, {}, FALSE, <<>>)>>]

\* after bootstrap(), importData(input) and the end of its re-seed; commands
\* are counted from here
InitImported(input, now) ==
  LET welcome == createCreationEvents(createWelcomeTree(1, now), Null, now, 0)
      tree == NormalizedTree(input, now)
      events == createCreationEvents(tree, Null, now, LastStamp(welcome, 0))
  IN /\ bullets = tree
     /\ history = <<Snapshot(tree, Null)>>
     /\ workspaces = <<WsRecord("w1", "Default", now)>>
     /\ currentWorkspace = "w1"
     /\ activeWorkspace = "w1"
     /\ lastTimestamp = LastStamp(events, LastStamp(welcome, 0))
     /\ dbEvents = WithWs("w1", events)
     /\ dbWorkspaces = <<WsRecord("w1", "Default", now)>>
     /\ nextId = 5
     /\ zoomedBulletId = Null
     /\ historyIndex = 0
     /\ lockedWorkspaceId = NoWs
     /\ recordingDepth = 0
     /\ storeAvailable = TRUE
     /\ hasWindow = TRUE
     /\ inflight = <<>>
     /\ flow = NoFlow
     /\ lockSnapshot = NoLockSnapshot
     /\ cmds = 0
     /\ ops = 0
     /\ result = Res("importData", TRUE, "", Null)
     /\ replayed = <<>>

InitImport ==
  \E now \in Clock :
    \E input \in {i \in ImportInputs : Appliable(i)} \cup {DuplicateIdInput} :
      InitImported(input, now)

\* tree commands on an imported document
SpecImported == InitImport /\ [][NextTree]_vars

\* after bootstrap() and k calls of zoomToBullet(null), each of which pushes
\* one more snapshot of the welcome tree; commands are counted from here
InitZoomed(now, k) ==
  LET tree == createWelcomeTree(1, now)
      events == createCreationEvents(tree, Null, now, 0)
  IN /\ bullets = tree
     /\ zoomedBulletId = Null
     /\ history = [i \in 1..(k + 1) |-> Snapshot(tree, Null)]
     /\ historyIndex = k
     /\ workspaces = <<WsRecord("w1", "Default", now)>>
     /\ currentWorkspace = "w1"
     /\ activeWorkspace = "w1"
     /\ lockedWorkspaceId = NoWs
     /\ recordingDepth = 0
     /\ lastTimestamp = LastStamp(events, 0)
     /\ dbEvents = WithWs("w1", events)
     /\ dbWorkspaces = <<WsRecord("w1", "Default", now)>>
     /\ storeAvailable = TRUE
     /\ hasWindow = TRUE
     /\ inflight = <<>>
     /\ flow = NoFlow
     /\ lockSnapshot = NoLockSnapshot
     /\ nextId = 5
     /\ cmds = 0
     /\ ops = 0
     /\ result = Res("zoomToBullet", TRUE, "", Null)
     /\ replayed = <<>>

InitHistory ==
  \E now \in Clock, k \in {0, HistoryLimit - 1} : InitZoomed(now, k)

\* the commands that push a snapshot, a command that does not, undo and redo
NextHistory ==
  \/ \E id \in KnownIds, now \in Clock :
       \/ IndentBullet(id, now)
       \/ OutdentBullet(id, now)
       \/ DeleteBullet(id, TRUE, now)
       \/ ZoomToBullet(id, now)
       \/ \E content \in Contents : UpdateBulletContent(id, content, now)
  \/ \E now \in Clock : CreateEmptyBullet(Null, FALSE, now)
  \/ ZoomOut
  \/ Undo
  \/ Redo
  \/ CommitAppend

SpecHistory == InitHistory /\ [][NextHistory]_vars

\* tree commands together with the view and whole-tree commands
Next ==
  \/ TreeCommand
  \/ \E id \in KnownIds, now \in Clock : DeleteBullet(id, FALSE, now)
  \/ \E now \in Clock : ZoomToBullet(Null, now)
  \/ CommitAppend
  \/ CommitClear
  \/ CommitInsert
  \/ ZoomOut
  \/ \E id \in KnownIds \cup {Null, GhostId} : SetZoomedBulletId(id)
  \/ Undo
  \/ Redo
  \/ \E input \in ImportInputs, now \in Clock : ImportData(input, now)
  \/ \E now \in Clock : ResetToDefault(now)

Spec == Init /\ [][Next]_vars

\* locking and unlocking, with storage failures and the commands the view
\* can still issue
\* the documents imported here: the empty one and the single checked bullet
LockImports == {input \in ImportInputs : Appliable(input) /\ Len(input.bullets) <= 1}

LockCommand ==
  \E now \in Clock :
    /\ cmds < MaxLockCmds
    /\ \/ CreateEmptyBullet(Null, FALSE, now)
       \/ \E input \in LockImports : ImportData(input, now)

NextLock ==
  \/ \E workspaceId \in WorkspaceIds, password \in LockPasswords :
       LockWorkspace(workspaceId, password)
  \/ \E workspaceId \in WorkspaceIds, password \in Passwords :
       UnlockWorkspace(workspaceId, password)
  \/ CommitAppend
  \/ CommitClear
  \/ CommitInsert
  \/ CommitLockRead
  \/ LockEncrypt
  \/ LockMark
  \/ CommitUnlockRead
  \/ UnlockMark
  \/ CommitLoadRead
  \/ FailTx
  \/ FailMark
  \/ LockCommand

SpecLock == Init /\ [][NextLock]_vars

\* lockWorkspace called with every kind of argument after bootstrap(), with
\* or without IndexedDB
InitLock == Init \/ \E now \in Clock : InitOffline(now)

NextLockCall ==
  \/ \E workspaceId \in WorkspaceIds \cup {NoWs, currentWorkspace},
        password \in LockPasswords \cup {""} :
       LockWorkspace(workspaceId, password)
  \/ CommitLockRead
  \/ LockEncrypt
  \/ CommitClear
  \/ CommitInsert
  \/ LockMark
  \/ CommitAppend
  \/ LockCommand

SpecLockCall == InitLock /\ [][NextLockCall]_vars

\* a fresh store in an environment without IndexedDB, with or without a
\* window object
InitUnbooted ==
  /\ bullets = <<>>
  /\ zoomedBulletId = Null
  /\ history = <<>>
  /\ historyIndex = -1
  /\ workspaces = <<>>
  /\ currentWorkspace = NoWs
  /\ lockedWorkspaceId = NoWs
  /\ recordingDepth = 0
  /\ lastTimestamp = 0
  /\ activeWorkspace = NoWs
  /\ dbEvents = <<>>
  /\ dbWorkspaces = <<>>
  /\ storeAvailable = FALSE
  /\ hasWindow \in BOOLEAN
  /\ inflight = <<>>
  /\ flow = NoFlow
  /\ lockSnapshot = NoLockSnapshot
  /\ nextId = 1
  /\ cmds = 0
  /\ ops = 0
  /\ result = Res("initializeStore", TRUE, "", Null)
  /\ replayed = <<>>

NextOffline ==
  \/ \E now \in Clock : Bootstrap(now)
  \/ \E workspaceId \in WorkspaceIds \cup {"w_default"}, now \in Clock :
       SelectWorkspace(workspaceId, now)
  \/ \E workspaceName \in WorkspaceNames, now \in Clock : CreateWorkspace(workspaceName, now)
  \/ \E nextName \in WorkspaceNames, now \in Clock : RenameCurrentWorkspace(nextName, now)
  \/ \E now \in Clock : DeleteCurrentWorkspace(now)
  \/ \E now \in Clock : DeleteAllWorkspaces(now)
  \/ workspaces # <<>> /\ TreeCommand
  \/ \E now \in Clock : workspaces # <<>> /\ CreateEmptyBullet(Null, FALSE, now)
  \/ \E input \in ImportInputs, now \in Clock : workspaces # <<>> /\ ImportData(input, now)
  \/ \E now \in Clock : workspaces # <<>> /\ ResetToDefault(now)
  \/ Undo
  \/ Redo

SpecOffline == InitUnbooted /\ [][NextOffline]_vars

\* the stored log of the current workspace, with nothing pending, replayed
\* with one corrupt event, a bullet event whose payload is null, put in at
\* position k
CorruptTypes == {"bullet_created", "bullet_indented"}

ReplayCorrupted(k, type) ==
  LET events == StripWs(getAllEvents(dbEvents, currentWorkspace))
      corrupt == [type |-> type, payload |-> NullPayload,
                  timestamp |-> IF k = 0 THEN 0 ELSE events[k].timestamp]
  IN /\ k <= Len(events)
     /\ inflight = <<>>
     /\ result.cmd # "replayEvents"
     /\ replayed' = replayEvents(InsertAt(events, k, corrupt))
     /\ result' = [Res("replayEvents", TRUE, "", Null) EXCEPT !.arg = type, !.op = k]
     /\ UNCHANGED <<treeVars, wsVars, modVars, dbVars, asyncVars, nextId, cmds, ops>>

ReplayCommand ==
  \E id \in KnownIds, now \in Clock :
    \/ \E content \in Contents : UpdateBulletContent(id, content, now)
    \/ IndentBullet(id, now)
    \/ OutdentBullet(id, now)
    \/ DeleteBullet(id, TRUE, now)

NextReplay ==
  \/ ReplayCommand
  \/ CommitAppend
  \/ \E k \in 0..Len(dbEvents), type \in CorruptTypes : ReplayCorrupted(k, type)

SpecReplay == Init /\ [][NextReplay]_vars

\* the event store called directly, next to the appends and re-seeds of the
\* commands
InitStore == Init \/ \E now \in Clock : InitOffline(now)

NextStore ==
  \/ \E id \in WorkspaceIds : DeleteWorkspaceRecord(id)
  \/ CommitDelete
  \/ CommitAppend
  \/ CommitClear
  \/ CommitInsert
  \/ LockCommand

SpecStore == InitStore /\ [][NextStore]_vars

-----------------------------------------------------------------------------
(* The event store read and written directly with caller-chosen timestamps *)

Stamps == 0..MaxClock

StampedEvent(ts) ==
  [type |-> "bullet_updated", payload |-> [id |-> 1, content |-> "x"], timestamp |-> ts]

\* appendEvent(workspaceId, record)
AppendEvent(workspaceId, ts) ==
  /\ cmds < MaxCmds
  /\ Len(inflight) < MaxInflight
  /\ cmds' = cmds + 1
  /\ inflight' = IF storeAvailable
                 THEN Append(inflight, Tx("append", "api", workspaceId,
                                          WithWs(workspaceId, <<StampedEvent(ts)>>)))
                 ELSE inflight
  /\ UNCHANGED <<treeVars, wsVars, modVars, dbVars, flow, lockSnapshot, nextId, ops, result,
                 replayed>>

\* bulkInsertEvents(workspaceId, events): every record is added in one
\* transaction, which commits at once here
BulkInsertEvents(workspaceId, ts1, ts2) ==
  /\ cmds < MaxCmds
  /\ inflight = <<>>
  /\ cmds' = cmds + 1
  /\ dbEvents' = IF storeAvailable
                 THEN bulkInsertEvents(dbEvents, workspaceId,
                                       <<StampedEvent(ts1), StampedEvent(ts2)>>)
                 ELSE dbEvents
  /\ UNCHANGED <<treeVars, wsVars, modVars, dbWorkspaces, storeAvailable, hasWindow,
                 asyncVars, nextId, ops, result, replayed>>

\* getAllEvents(workspaceId?): the read-only transaction commits; NoWs is
\* the call without an id
GetAllEvents(workspaceId) ==
  /\ result.cmd # "getAllEvents"
  /\ ops' = ops + 1
  /\ result' = [Res("getAllEvents", TRUE, "", Null) EXCEPT
                  !.ws = workspaceId,
                  !.doc = IF storeAvailable THEN getAllEvents(dbEvents, workspaceId)
                          ELSE <<>>]
  /\ UNCHANGED <<treeVars, wsVars, modVars, dbVars, asyncVars, nextId, cmds, replayed>>

NextQuery ==
  \/ \E workspaceId \in WorkspaceIds, ts \in Stamps : AppendEvent(workspaceId, ts)
  \/ \E workspaceId \in WorkspaceIds, ts1, ts2 \in Stamps :
       BulkInsertEvents(workspaceId, ts1, ts2)
  \/ CommitAppend
  \/ \E workspaceId \in WorkspaceIds \cup {NoWs} : GetAllEvents(workspaceId)

SpecQuery == InitStore /\ [][NextQuery]_vars

-----------------------------------------------------------------------------
(* Schema upgrade: openDatabase finds a store of an earlier version *)

MaxLegacyEvents == 2

\* workspace names of a version 2 store and workspace ids of a version 3
\* store, each in key order
LegacyNames == <<"default", "notes", "w_notes">>

LegacyIds == <<"a", "default", "w_b">>

ensureWorkspaceId(id) ==
  IF Len(id) >= 2 /\ SubSeq(id, 1, 2) = "w_" THEN id ELSE "w_" \o id

LegacyEvent(i) ==
  [type |-> "bullet_updated", payload |-> [id |-> 1, content |-> "x"], timestamp |-> i]

\* the workspace an event of an earlier version is stored under
LegacyWorkspaceOf(e) ==
  IF "workspaceId" \in DOMAIN e THEN e.workspaceId
  ELSE IF "workspace" \in DOMAIN e THEN e.workspace
  ELSE "default"

KeysIn(order, among) == SelectSeq(order, LAMBDA k : k \in among)

\* every assignment of at most MaxLegacyEvents events to the workspaces
Owners(among) == UNION {[1..n -> among] : n \in 0..MaxLegacyEvents}

Version1Store(n) ==
  [oldVersion |-> 1, keyPath |-> "", records |-> <<>>,
   events |-> [i \in 1..n |-> LegacyEvent(i)]]

Version2Store(names, o) ==
  [oldVersion |-> 2, keyPath |-> "name",
   records |-> [i \in 1..Len(names) |->
                  [name |-> names[i], createdAt |-> 0, updatedAt |-> 0]],
   events |-> [i \in 1..Len(o) |->
                 [type |-> LegacyEvent(i).type, payload |-> LegacyEvent(i).payload,
                  timestamp |-> i, workspace |-> o[i]]]]

Version3Store(ids, o) ==
  [oldVersion |-> 3, keyPath |-> "id",
   records |-> [i \in 1..Len(ids) |->
                  [id |-> ids[i], name |-> "Work", createdAt |-> 0, updatedAt |-> 0]],
   events |-> [i \in 1..Len(o) |->
                 [type |-> LegacyEvent(i).type, payload |-> LegacyEvent(i).payload,
                  timestamp |-> i, workspaceId |-> o[i]]]]

LegacyStores ==
        {Version1Store(n) : n \in 0..MaxLegacyEvents}
   \cup UNION {{Version2Store(KeysIn(LegacyNames, among), o) : o \in Owners(among)} :
                among \in SUBSET Range(LegacyNames)}
   \cup UNION {{Version3Store(KeysIn(LegacyIds, among), o) : o \in Owners(among)} :
                among \in SUBSET Range(LegacyIds)}

\* IDBObjectStore.put on the id-keyed workspace table
PutRecord(table, record) ==
  IF \E i \in 1..Len(table) : table[i].id = record.id
  THEN [i \in 1..Len(table) |-> IF table[i].id = record.id THEN record ELSE table[i]]
  ELSE Append(table, record)

RECURSIVE PutRecords(_, _, _)
PutRecords(table, records, i) ==
  IF i > Len(records) THEN table
  ELSE PutRecords(PutRecord(table, records[i]), records, i + 1)

\* the records read from the legacy workspace table, under their ids
ExistingWorkspaces(store) ==
  [i \in 1..Len(store.records) |->
     LET record == store.records[i]
         raw == IF store.keyPath = "id" THEN record.id ELSE record.name
     IN [WsRecord(ensureWorkspaceId(raw), record.name, record.createdAt)
           EXCEPT !.updatedAt = record.updatedAt]]

\* idUpdates: the legacy keys that are not their own normalized id
IdUpdates(store) ==
  LET RawOf(i) == IF store.keyPath = "id" THEN store.records[i].id
                  ELSE store.records[i].name
      changed == {i \in 1..Len(store.records) : ensureWorkspaceId(RawOf(i)) # RawOf(i)}
  IN [raw \in {RawOf(i) : i \in changed} |-> ensureWorkspaceId(raw)]

\* the first cursor pass: events without a workspaceId get one, and a
\* workspace record when theirs is missing; st = [table, events]
RECURSIVE BackfillFrom(_, _, _)
BackfillFrom(st, i, now) ==
  IF i > Len(st.events) THEN st
  ELSE LET e == st.events[i]
       IN IF "workspaceId" \in DOMAIN e /\ e.workspaceId # ""
          THEN BackfillFrom(st, i + 1, now)
          ELSE LET named == "workspace" \in DOMAIN e
                   workspaceId == ensureWorkspaceId(IF named THEN e.workspace ELSE "default")
                   name == IF named THEN e.workspace ELSE "Default"
                   known == \E k \in 1..Len(st.table) : st.table[k].id = workspaceId
                   updated == [type |-> e.type, payload |-> e.payload,
                               timestamp |-> e.timestamp, workspaceId |-> workspaceId]
               IN BackfillFrom(
                    [table |-> IF known THEN st.table
                               ELSE PutRecord(st.table, WsRecord(workspaceId, name, now)),
                     events |-> [st.events EXCEPT ![i] = updated]],
                    i + 1, now)

\* the second cursor pass: events move to the normalized ids
Remapped(events, idUpdates) ==
  [i \in 1..Len(events) |->
     IF events[i].workspaceId \in DOMAIN idUpdates
     THEN [events[i] EXCEPT !.workspaceId = idUpdates[events[i].workspaceId]]
     ELSE events[i]]

\* [table, events] after upgradeDatabase
upgradeDatabase(store, now) ==
  LET existing == ExistingWorkspaces(store)
      idUpdates == IdUpdates(store)
      recreate == store.keyPath # "id"
      legacy == [i \in 1..Len(store.records) |->
                   [existing[i] EXCEPT !.id = store.records[i].id]]
      kept == IF recreate THEN <<>>
              ELSE SelectSeq(legacy, LAMBDA r : r.id \notin DOMAIN idUpdates)
      table == IF existing = <<>> THEN <<WsRecord("w_default", "Default", now)>>
               ELSE PutRecords(kept, existing, 1)
      filled == IF store.oldVersion < 3
                THEN BackfillFrom([table |-> table, events |-> store.events], 1, now)
                ELSE [table |-> table, events |-> store.events]
  IN [table |-> filled.table,
      events |-> IF store.oldVersion < 4 /\ DOMAIN idUpdates # {}
                 THEN Remapped(filled.events, idUpdates) ELSE filled.events]

\* onupgradeneeded runs upgradeDatabase inside the version change transaction
UpgradeDatabase(now) ==
  /\ flow.phase = "upgrade"
  /\ LET after == upgradeDatabase(flow.store, now)
     IN /\ dbWorkspaces' = after.table
        /\ dbEvents' = after.events
  /\ flow' = NoFlow
  /\ result' = [Res("upgradeDatabase", TRUE, "", Null) EXCEPT
                  !.op = flow.store.oldVersion,
                  !.before = flow.store.events,
                  !.doc = flow.store.records]
  /\ UNCHANGED <<treeVars, wsVars, modVars, storeAvailable, hasWindow, inflight, lockSnapshot,
                 nextId, cmds, ops, replayed>>

InitLegacy ==
  /\ bullets = <<>>
  /\ zoomedBulletId = Null
  /\ history = <<>>
  /\ historyIndex = -1
  /\ workspaces = <<>>
  /\ currentWorkspace = NoWs
  /\ lockedWorkspaceId = NoWs
  /\ recordingDepth = 0
  /\ lastTimestamp = 0
  /\ activeWorkspace = NoWs
  /\ dbWorkspaces = <<>>
  /\ dbEvents = <<>>
  /\ storeAvailable = TRUE
  /\ hasWindow = TRUE
  /\ inflight = <<>>
  /\ \E store \in LegacyStores : flow = [phase |-> "upgrade", store |-> store]
  /\ lockSnapshot = NoLockSnapshot
  /\ nextId = 1
  /\ cmds = 0
  /\ ops = 0
  /\ result = Res("openDatabase", TRUE, "", Null)
  /\ replayed = <<>>

NextUpgrade == \E now \in Clock : UpgradeDatabase(now)

SpecUpgrade == InitLegacy /\ [][NextUpgrade]_vars

\* the page reopened: a fresh process over the stored state
NextRestart ==
  \/ Restart
  \/ CommitLoadRead
  \/ CommitAppend
  \/ CommitClear
  \/ CommitInsert
  \/ \E workspaceId \in WorkspaceIds, password \in LockPasswords :
       LockWorkspace(workspaceId, password)
  \/ CommitLockRead
  \/ LockEncrypt
  \/ LockMark
  \/ LockCommand

SpecRestart == Init /\ [][NextRestart]_vars

-----------------------------------------------------------------------------
(* C1: after any sequence of tree commands on a loaded, unlocked workspace, *)
(* once every append has committed, replaying the workspace's stored events *)
(* in timestamp order yields exactly the in-memory tree.                    *)
ReplayMatchesTree ==
  inflight = <<>> => replayEvents(getAllEvents(dbEvents, currentWorkspace)) = bullets

HasStored(type) ==
  \E i \in 1..Len(dbEvents) :
    dbEvents[i].type = type /\ dbEvents[i].workspaceId = currentWorkspace

ReplayMatchesTreeWitness ==
  /\ inflight = <<>>
  /\ HasStored("bullet_outdented")
  /\ HasStored("bullet_deleted")
  /\ cmds = MaxCmds

-----------------------------------------------------------------------------
(* Creation events of a tree, replayed *)

FieldValues ==
  [content : {""} \cup Contents,
   context : {""} \cup Contexts,
   collapsed : BOOLEAN, checked : BOOLEAN, createdAt : Clock]

\* forests of n bullets whose ids are first, first + 1, ... in pre-order
RECURSIVE ForestsOf(_, _)
ForestsOf(first, n) ==
  IF n = 0 THEN {<<>>}
  ELSE UNION { UNION { { <<[id |-> first, content |-> f.content, context |-> f.context,
                            collapsed |-> f.collapsed, checked |-> f.checked,
                            createdAt |-> f.createdAt, children |-> kids]>> \o rest :
                         f \in FieldValues, kids \in ForestsOf(first + 1, k) } :
                       rest \in ForestsOf(first + 1 + k, n - 1 - k) } :
               k \in 0..(n - 1) }

InitRoundTrip ==
  /\ \E n \in 0..MaxTreeNodes : bullets \in ForestsOf(1, n)
  /\ zoomedBulletId = Null
  /\ history = <<>>
  /\ historyIndex = -1
  /\ workspaces = <<>>
  /\ currentWorkspace = NoWs
  /\ lockedWorkspaceId = NoWs
  /\ recordingDepth = 0
  /\ lastTimestamp = 0
  /\ activeWorkspace = NoWs
  /\ dbEvents = <<>>
  /\ dbWorkspaces = <<>>
  /\ storeAvailable = TRUE
  /\ hasWindow = TRUE
  /\ inflight = <<>>
  /\ flow = NoFlow
  /\ lockSnapshot = NoLockSnapshot
  /\ nextId = MaxTreeNodes + 1
  /\ cmds = 0
  /\ ops = 0
  /\ result = Res("init", TRUE, "", Null)
  /\ replayed = <<>>

\* replayEvents(createCreationEvents(bullets, null))
RoundTrip(now) ==
  /\ result.cmd = "init"
  /\ replayed' = replayEvents(createCreationEvents(bullets, Null, now, lastTimestamp))
  /\ result' = Res("roundTrip", TRUE, "", Null)
  /\ UNCHANGED <<treeVars, wsVars, modVars, dbVars, asyncVars, nextId, cmds, ops>>

NextRoundTrip == \E now \in Clock : RoundTrip(now)

SpecRoundTrip == InitRoundTrip /\ [][NextRoundTrip]_vars

-----------------------------------------------------------------------------
(* C11: for a bullet that has a previous sibling, indentBullet(id) followed  *)
(* by outdentBullet(id) puts the whole tree back as it was before the       *)
(* indent: the bullet under its original parent at its original index,      *)
(* every other bullet in its original place.                                *)
IndentOutdentRestores ==
  [][ ( /\ cmds' = cmds + 1
        /\ result.cmd = "indentBullet"
        /\ result.ok
        /\ result'.cmd = "outdentBullet"
        /\ result'.ok
        /\ result'.id = result.id )
      => bullets' = result.before ]_vars

\* the commands that call saveToHistory when they succeed
PushingCommands ==
  {"indentBullet", "outdentBullet", "createAndInsertBullet", "createEmptyBullet",
   "deleteBullet", "zoomToBullet", "zoomOut", "moveBulletUp", "moveBulletDown"}

HistoryWellFormed ==
  /\ Len(history) <= HistoryLimit
  /\ history = <<>> => historyIndex = -1
  /\ history # <<>> => historyIndex \in 0..(Len(history) - 1)

(* C12: the undo/redo stack never holds more than 100 snapshots and         *)
(* historyIndex is -1 for the empty stack and otherwise the index of an     *)
(* existing snapshot; a command that pushes a snapshot leaves the cursor at *)
(* the tip, on the snapshot of the new tree and zoom, with every snapshot   *)
(* that was ahead of the cursor discarded.                                  *)
HistoryBounded ==
  /\ []HistoryWellFormed
  /\ [][ ( /\ cmds' = cmds + 1
           /\ result'.ok
           /\ result'.cmd \in PushingCommands )
         => ( /\ historyIndex' = Len(history') - 1
              /\ history'[Len(history')] = Snapshot(bullets', zoomedBulletId')
              /\ Len(history') = Min(historyIndex + 2, HistoryLimit)
              /\ \A i \in 1..(Len(history') - 1) :
                    history'[i] = history[i + (historyIndex + 2 - Len(history'))] ) ]_vars

\* a push onto a full stack dropped the oldest snapshot
HistoryBoundedWitness ==
  /\ Len(history) = HistoryLimit
  /\ historyIndex = HistoryLimit - 1
  /\ result.cmd = "indentBullet"
  /\ result.ok
  /\ history[HistoryLimit] = Snapshot(bullets, zoomedBulletId)
  /\ history[HistoryLimit] # history[1]

(* C13: undo with the cursor above 0 and redo with the cursor below the tip *)
(* move the cursor by exactly one and set the tree and the zoom focus to    *)
(* the snapshot at the new cursor; at the boundary they change nothing; in  *)
(* every case no event is emitted and the stored events and the history     *)
(* contents stay as they were.                                              *)
UndoRedoFrame ==
  [][ ( /\ cmds' = cmds + 1
        /\ result'.cmd \in {"undo", "redo"} )
      => LET moves == IF result'.cmd = "undo" THEN historyIndex > 0
                      ELSE historyIndex < Len(history) - 1
             target == IF result'.cmd = "undo" THEN historyIndex - 1
                       ELSE historyIndex + 1
         IN /\ result'.ok = moves
            /\ IF moves
               THEN /\ historyIndex' = target
                    /\ bullets' = history[target + 1].bullets
                    /\ zoomedBulletId' = history[target + 1].zoomedBulletId
               ELSE UNCHANGED <<bullets, zoomedBulletId, historyIndex>>
            /\ UNCHANGED <<history, inflight, dbEvents, lastTimestamp>> ]_vars

\* an undo took the view back out of a zoom
UndoRedoFrameWitness ==
  /\ result.cmd = "undo"
  /\ result.ok
  /\ zoomedBulletId = Null
  /\ historyIndex + 2 = Len(history)
  /\ history[historyIndex + 2].zoomedBulletId # Null

\* the commands that change a field of one bullet
FieldCommands ==
  {"updateBulletContent", "updateBulletContext", "setBulletCollapsed",
   "toggleBulletCollapsed", "setBulletChecked", "toggleBulletChecked"}

(* C14: every successful mutating command, the field updates included,      *)
(* pushes a history snapshot: after the command the snapshot at the history *)
(* cursor equals the current tree and zoom focus.                           *)
CommandsPushSnapshot ==
  [][ ( /\ cmds' = cmds + 1
        /\ result'.ok
        /\ result'.cmd \in PushingCommands \cup FieldCommands )
      => ( /\ historyIndex' \in 0..(Len(history') - 1)
           /\ history'[historyIndex' + 1] = Snapshot(bullets', zoomedBulletId') ) ]_vars

(* C15: importData returns false exactly for an input that is not JSON with *)
(* a bullets array or whose records cannot be applied as bullets, and then  *)
(* the tree, the zoom focus, the history and the stored events are          *)
(* unchanged; when it returns true the tree is the normalized import, the   *)
(* zoom focus is null and the history holds exactly one snapshot.           *)
ImportIsAllOrNothing ==
  [][ ( /\ cmds' = cmds + 1
        /\ result'.cmd = "importData" )
      => /\ result'.ok = Appliable(result'.doc)
         /\ IF result'.ok
            THEN /\ \E now \in Clock : bullets' = NormalizedTree(result'.doc, now)
                 /\ zoomedBulletId' = Null
                 /\ history' = <<Snapshot(bullets', Null)>>
                 /\ historyIndex' = 0
            ELSE UNCHANGED <<bullets, zoomedBulletId, history, historyIndex, dbEvents,
                             inflight>> ]_vars

\* a step in which a deleteWorkspaceRecord(id) call settles: its transaction
\* ends, or the call returns at once
DeleteSettles ==
  \/ inflight # <<>> /\ Head(inflight).kind = "delete" /\ inflight' = Tail(inflight)
  \/ /\ ops' = ops + 1
     /\ result'.cmd = "deleteWorkspaceRecord"
     /\ result'.code # "pending"

DeleteLeavesOthers(id) ==
  /\ \A i \in 1..Len(dbEvents') : dbEvents'[i].workspaceId # id
  /\ ~HasRecord(dbWorkspaces', id)
  /\ dbEvents' = clearEventsForWorkspace(dbEvents, id)
  /\ dbWorkspaces' = WithoutRecord(dbWorkspaces, id)
  /\ UNCHANGED <<treeVars, wsVars, modVars>>

(* C16 as stated: deleteWorkspaceRecord(id) fails with WORKSPACE_NOT_FOUND  *)
(* and changes nothing whenever the id is absent.                           *)
DeleteAbsentFails ==
  [][ ( DeleteSettles /\ ~HasRecord(dbWorkspaces, result'.ws) )
      => ( /\ ~result'.ok
           /\ result'.code = "WORKSPACE_NOT_FOUND"
           /\ UNCHANGED <<dbEvents, dbWorkspaces>> ) ]_vars

(* C16: with the store available, deleteWorkspaceRecord(id) fails with      *)
(* WORKSPACE_NOT_FOUND and changes nothing when the id is absent, and       *)
(* otherwise removes the record and every event stored under the id in one  *)
(* step, leaving every other record and event unchanged; without the store  *)
(* it returns without failing and changes nothing.                          *)
DeleteCascades ==
  [][ DeleteSettles
      => IF ~storeAvailable
         THEN result'.ok /\ UNCHANGED <<dbEvents, dbWorkspaces, treeVars, wsVars, modVars>>
         ELSE IF ~HasRecord(dbWorkspaces, result'.ws)
         THEN /\ ~result'.ok
              /\ result'.code = "WORKSPACE_NOT_FOUND"
              /\ UNCHANGED <<dbEvents, dbWorkspaces, treeVars, wsVars, modVars>>
         ELSE result'.ok /\ DeleteLeavesOthers(result'.ws) ]_vars

\* a record went together with its events while another workspace kept both
DeleteCascadesWitness ==
  /\ result.cmd = "deleteWorkspaceRecord"
  /\ result.ok
  /\ storeAvailable
  /\ ~HasRecord(dbWorkspaces, result.ws)
  /\ EventsOf(dbEvents, result.ws) = <<>>
  /\ \E i \in 1..Len(dbWorkspaces) : EventsOf(dbEvents, dbWorkspaces[i].id) # <<>>

\* one workspace, the default one, is current and shows the welcome tree
WelcomeShown ==
  /\ Len(workspaces) = 1
  /\ workspaces[1].id = "w_default"
  /\ workspaces[1].name = "Default"
  /\ currentWorkspace = "w_default"
  /\ \E now \in Clock, id0 \in 1..nextId : bullets = createWelcomeTree(id0, now)

(* C17: while the store is unavailable no step changes the stored events or *)
(* records or opens a transaction, no command fails for want of the store,  *)
(* and bootstrap ends with one default workspace that is current and shows  *)
(* the welcome tree.                                                        *)
OfflineStaysUsable ==
  [][ ~storeAvailable
      => /\ UNCHANGED <<dbEvents, dbWorkspaces>>
         /\ inflight' = <<>>
         /\ result'.code \notin {"EVENT_STORE_UNAVAILABLE", "pending"}
         /\ (result'.cmd = "bootstrap" /\ ops' = ops + 1) => WelcomeShown' ]_vars

\* a step in which lockWorkspace(result'.ws, result'.arg) is called
LockCalled ==
  /\ ops' = ops + 1
  /\ result'.cmd = "lockWorkspace"
  /\ result'.op = ops'

LockChangesNothing ==
  UNCHANGED <<treeVars, wsVars, modVars, dbVars, inflight, flow>>

(* C18 as stated: lockWorkspace rejects with WORKSPACE_NOT_FOUND whenever   *)
(* the id is not a known workspace, then with WORKSPACE_PASSWORD_REQUIRED   *)
(* for an empty password, returns for a locked workspace and rejects with   *)
(* EVENT_STORE_UNAVAILABLE without the store, changing nothing.             *)
LockRejectsUnknownId ==
  [][ LockCalled
      => IF ~HasRecord(workspaces, result'.ws)
         THEN result'.code = "WORKSPACE_NOT_FOUND" /\ LockChangesNothing
         ELSE IF result'.arg = ""
         THEN result'.code = "WORKSPACE_PASSWORD_REQUIRED" /\ LockChangesNothing
         ELSE IF getWorkspaceRecord(workspaces, result'.ws).locked
         THEN result'.ok /\ LockChangesNothing
         ELSE ~storeAvailable
              => result'.code = "EVENT_STORE_UNAVAILABLE" /\ LockChangesNothing ]_vars

(* C18: lockWorkspace returns without effect for an empty id, rejects with  *)
(* WORKSPACE_NOT_FOUND for any other id that is not a known workspace, then *)
(* with WORKSPACE_PASSWORD_REQUIRED for an empty password, returns without  *)
(* effect for a workspace that is already locked, and rejects with          *)
(* EVENT_STORE_UNAVAILABLE without the store; in each of these cases no     *)
(* stored event, no workspace record and no in-memory state changes.        *)
LockRejections ==
  [][ LockCalled
      => IF result'.ws = NoWs
         THEN result'.ok /\ result'.code = "" /\ LockChangesNothing
         ELSE IF ~HasRecord(workspaces, result'.ws)
         THEN ~result'.ok /\ result'.code = "WORKSPACE_NOT_FOUND" /\ LockChangesNothing
         ELSE IF result'.arg = ""
         THEN /\ ~result'.ok
              /\ result'.code = "WORKSPACE_PASSWORD_REQUIRED"
              /\ LockChangesNothing
         ELSE IF getWorkspaceRecord(workspaces, result'.ws).locked
         THEN result'.ok /\ result'.code = "" /\ LockChangesNothing
         ELSE IF ~storeAvailable
         THEN /\ ~result'.ok
              /\ result'.code = "EVENT_STORE_UNAVAILABLE"
              /\ LockChangesNothing
         ELSE result'.code = "pending" ]_vars

\* lockWorkspace was called on a workspace that was already locked
LockRejectionsWitness ==
  /\ result.cmd = "lockWorkspace"
  /\ result.ok
  /\ result.op = ops
  /\ lockSnapshot.taken
  /\ lockSnapshot.ops + 1 < result.op
  /\ result.ws = lockSnapshot.ws
  /\ HasRecord(workspaces, result.ws)
  /\ getWorkspaceRecord(workspaces, result.ws).locked

\* the step in which lockWorkspace(flow.ws, flow.password) returns true
LockSucceeds ==
  /\ flow.phase = "lock-mark"
  /\ flow'.phase = "idle"
  /\ result'.ok

\* the step in which unlockWorkspace clears the lock on the record
UnlockClears ==
  /\ flow.phase = "unlock-mark"
  /\ flow'.phase # "unlock-mark"
  /\ result'.ok \/ result'.code = "pending"

\* {__encrypted: true, iv, data}
IsEnvelope(payload) ==
  /\ DOMAIN payload = {"encrypted", "iv", "data"}
  /\ payload.encrypted = TRUE

SameButPayload(after, before) ==
  /\ Len(after) = Len(before)
  /\ \A i \in 1..Len(before) :
       /\ after[i].type = before[i].type
       /\ after[i].timestamp = before[i].timestamp
       /\ IF IsWorkspaceEvent(before[i].type)
          THEN after[i].payload = before[i].payload
          ELSE IsEnvelope(after[i].payload)

(* C19: when lockWorkspace(W, P) succeeds, W's stored events have the count, *)
(* types, timestamps and order of the events the lock read, every           *)
(* workspace_* event keeps its payload, every other payload is an encrypted *)
(* envelope, and W's record is locked with both lock-test fields set and    *)
(* id, name, createdAt and updatedAt unchanged; when unlockWorkspace        *)
(* succeeds the record is unlocked and both lock-test fields are absent.    *)
LockRewritesPayloadsOnly ==
  [][ /\ LockSucceeds
         => LET after == getWorkspaceRecord(dbWorkspaces', flow.ws)
                before == getWorkspaceRecord(dbWorkspaces, flow.ws)
            IN /\ SameButPayload(StripWs(getAllEvents(dbEvents', flow.ws)),
                                 StripWs(flow.events))
               /\ after.locked
               /\ after.lockTestName # ""
               /\ after.lockTestValue # {}
               /\ after.id = before.id
               /\ after.name = before.name
               /\ after.createdAt = before.createdAt
               /\ after.updatedAt = before.updatedAt
      /\ UnlockClears
         => LET after == getWorkspaceRecord(dbWorkspaces', flow.ws)
            IN /\ ~after.locked
               /\ after.lockTestName = ""
               /\ after.lockTestValue = {} ]_vars

\* the same for a lock during which no command was issued
QuietLockRewritesPayloadsOnly ==
  [][ (LockSucceeds /\ cmds = lockSnapshot.cmds)
      => SameButPayload(StripWs(getAllEvents(dbEvents', flow.ws)), StripWs(flow.events))
    ]_vars

\* a step after which the workspace ws is active and its record locked:
\* lockWorkspace succeeds on the active workspace, or bootstrap loads a
\* workspace whose stored record is locked
EntersLocked(ws) ==
  \/ LockSucceeds /\ currentWorkspace = ws /\ flow.ws = ws
  \/ /\ ops' = ops + 1
     /\ result'.cmd = "bootstrap"
     /\ result'.ws = ws
     /\ HasRecord(dbWorkspaces', ws)
     /\ getWorkspaceRecord(dbWorkspaces', ws).locked

(* C20: whenever the active workspace enters the Locked state the tree is   *)
(* empty, the zoom focus is null, the history is empty with                 *)
(* historyIndex = -1, and lockedWorkspaceId is the active workspace.        *)
EnteringLockedClearsView ==
  [][ \A ws \in WorkspaceIds :
        EntersLocked(ws)
        => /\ bullets' = <<>>
           /\ zoomedBulletId' = Null
           /\ history' = <<>>
           /\ historyIndex' = -1
           /\ currentWorkspace' = ws
           /\ lockedWorkspaceId' = ws ]_vars

(* C21: with the store available and no append failing, at most one        *)
(* emitted event is not yet durably appended at any moment.                 *)
AtMostOneEventPending ==
  storeAvailable => Len(PendingAppends) <= 1

(* C22: when applying one event throws, replayEvents skips only that event: *)
(* the result equals the replay of the sequence without it, every later     *)
(* event still applied.                                                     *)
ReplaySkipsThrowingEvent ==
  [][ (result.cmd # "replayEvents" /\ result'.cmd = "replayEvents")
      => replayed' = replayEvents(getAllEvents(dbEvents, currentWorkspace)) ]_vars

\* the corrupt event was followed by an indent and a delete, both applied
ReplaySkipsThrowingEventWitness ==
  /\ result.cmd = "replayEvents"
  /\ result.op <= 4
  /\ HasStored("bullet_indented")
  /\ HasStored("bullet_deleted")
  /\ replayed = bullets
  /\ inflight = <<>>

(* C23: getAllEvents(W) returns exactly the events stored under workspace   *)
(* id W, in ascending timestamp order, whatever order they were appended   *)
(* or bulk-inserted in; without an id it returns every stored event in     *)
(* ascending timestamp order.                                              *)
Ascending(events) ==
  \A i, j \in 1..Len(events) : i < j => events[i].timestamp <= events[j].timestamp

Occurrences(events, e) == Cardinality({i \in 1..Len(events) : events[i] = e})

SameEvents(a, b) ==
  \A e \in Range(a) \cup Range(b) : Occurrences(a, e) = Occurrences(b, e)

StoredUnder(ws) == IF ws = NoWs THEN dbEvents ELSE EventsOf(dbEvents, ws)

Upgraded == result.cmd = "upgradeDatabase"

UpgradeSeedsRecord == Upgraded => dbWorkspaces # <<>>

UpgradeLeavesNoOrphan ==
  Upgraded => \A i \in 1..Len(dbEvents) :
                \E k \in 1..Len(dbWorkspaces) : dbWorkspaces[k].id = dbEvents[i].workspaceId

UpgradeKeepsMembership ==
  Upgraded =>
    /\ Len(dbEvents) = Len(result.before)
    /\ \A i, j \in 1..Len(dbEvents) :
         (dbEvents[i].workspaceId = dbEvents[j].workspaceId)
           <=> (LegacyWorkspaceOf(result.before[i]) = LegacyWorkspaceOf(result.before[j]))

(* C24: after the schema upgrade of a store of an earlier version at least *)
(* one workspace record exists, every event carries the id of an existing  *)
(* workspace record, and every event still belongs to the workspace it     *)
(* belonged to before: two events share a workspace after the upgrade      *)
(* exactly when they shared one before.                                    *)
UpgradePreservesWorkspaces ==
  UpgradeSeedsRecord /\ UpgradeLeavesNoOrphan /\ UpgradeKeepsMembership

\* the deleted bullet's place in the tree before a successful delete request
Deleted == result.cmd = "handleDeleteRequest" /\ result.ok

DeletedPath == findBulletWithContext(result.id, result.before)

DeletedParentId == ParentIdOf(result.before, DeletedPath)

DeletedSiblings == ChildrenAt(result.before, ParentPath(DeletedPath))

\* the deepest last descendant reached through bullets that are not collapsed
RECURSIVE DeepestVisibleLast(_)
DeepestVisibleLast(b) ==
  IF b.children = <<>> \/ b.collapsed THEN b.id
  ELSE DeepestVisibleLast(b.children[Len(b.children)])

(* C25: after a successful delete request the focused bullet is the        *)
(* auto-created replacement if one was created; otherwise the parent if    *)
(* the deleted bullet was an only or first child; otherwise the deepest    *)
(* visible last descendant of the previous sibling; otherwise, for a first *)
(* root bullet with other root bullets, the next root sibling; and a       *)
(* target is chosen in each of these cases.                                *)
FocusFollowsPrecedence ==
  Deleted =>
    LET index == LastIdx(DeletedPath)
    IN result.doc =
         IF result.newId # Null THEN <<result.newId>>
         ELSE IF index = 1 /\ DeletedParentId # Null THEN <<DeletedParentId>>
         ELSE IF index > 1 THEN <<DeepestVisibleLast(DeletedSiblings[index - 1])>>
         ELSE <<DeletedSiblings[2].id>>

\* where a bullet stands before a command runs
Path(id) == findBulletWithContext(id, bullets)

Unknown(id) == Path(id) = <<>>

FirstSibling(id) == ~Unknown(id) /\ LastIdx(Path(id)) = 1

LastSibling(id) ==
  ~Unknown(id) /\ LastIdx(Path(id)) = Len(ChildrenAt(bullets, ParentPath(Path(id))))

RootLevel(id) == ~Unknown(id) /\ Len(Path(id)) = 1

HasChildren(id) == ~Unknown(id) /\ NodeAt(bullets, Path(id)).children # <<>>

\* the step is a call of this command
Called(cmd) == cmds' = cmds + 1 /\ result'.cmd = cmd

\* the command reports failure and the tree, the zoom, the history and the
\* event log, stored or on its way, are as before
Rejected ==
  /\ ~result'.ok
  /\ UNCHANGED <<bullets, zoomedBulletId, history, historyIndex, dbEvents, inflight>>

(* C26: indentBullet on a first sibling, outdentBullet on a root bullet,   *)
(* moveBulletUp on a first sibling, moveBulletDown on a last sibling,      *)
(* deleteBullet without skipConfirmation on a bullet with children, and    *)
(* any of them on an unknown id, report failure and leave the tree, the    *)
(* zoom, the history stack and the event log unchanged.                    *)
FailedCommandsChangeNothing ==
  [][ \A id \in KnownIds \cup {GhostId}, now \in Clock :
        /\ (Called("indentBullet") /\ (Unknown(id) \/ FirstSibling(id))
              /\ IndentBullet(id, now)) => Rejected
        /\ (Called("outdentBullet") /\ (Unknown(id) \/ RootLevel(id))
              /\ OutdentBullet(id, now)) => Rejected
        /\ (Called("moveBulletUp") /\ (Unknown(id) \/ FirstSibling(id))
              /\ MoveBulletUp(id, now)) => Rejected
        /\ (Called("moveBulletDown") /\ (Unknown(id) \/ LastSibling(id))
              /\ MoveBulletDown(id, now)) => Rejected
        /\ (Called("deleteBullet") /\ (Unknown(id) \/ HasChildren(id))
              /\ DeleteBullet(id, FALSE, now)) => Rejected
    ]_vars

\* a delete without confirmation was refused after an earlier command went
\* through
FailedCommandsChangeNothingWitness ==
  /\ result.cmd = "deleteBullet" /\ ~result.ok /\ result.code = "hasChildren"
  /\ cmds = 2 /\ Len(history) = 2

\* where a bullet stands after a command ran
PathAfter(id) == findBulletWithContext(id, bullets')

\* the command started exactly one append, of one event of this type
EmitsOne(type) ==
  /\ Len(inflight') = Len(inflight) + 1
  /\ SubSeq(inflight', 1, Len(inflight)) = inflight
  /\ inflight'[Len(inflight')].kind = "append"
  /\ Len(inflight'[Len(inflight')].events) = 1
  /\ inflight'[Len(inflight')].events[1].type = type

Emitted == inflight'[Len(inflight')].events[1].payload

\* the bullet kept its subtree and no other bullet moved: without the
\* bullet the two trees are the same
OnlyMoved(id) ==
  /\ NodeAt(bullets', PathAfter(id)) = NodeAt(bullets, Path(id))
  /\ detach(bullets', PathAfter(id)) = detach(bullets, Path(id))

(* C27: indentBullet on a bullet with a preceding sibling makes it the     *)
(* last child of that sibling, keeps its subtree, leaves every other       *)
(* bullet where it was, and emits one bullet_indented event whose          *)
(* toParentId and toIndex are the bullet's new parent and position.        *)
IndentMakesLastChild ==
  [][ \A id \in KnownIds, now \in Clock :
        (Called("indentBullet") /\ ~FirstSibling(id) /\ IndentBullet(id, now)) =>
          LET p == Path(id)
              prev == ChildrenAt(bullets, ParentPath(p))[LastIdx(p) - 1]
              q == PathAfter(id)
          IN /\ result'.ok
             /\ q # <<>> /\ Len(q) = Len(p) + 1
             /\ NodeAt(bullets', ParentPath(q)).id = prev.id
             /\ LastIdx(q) = Len(NodeAt(bullets', ParentPath(q)).children)
             /\ LastIdx(q) = Len(prev.children) + 1
             /\ OnlyMoved(id)
             /\ EmitsOne("bullet_indented")
             /\ Emitted.id = id
             /\ Emitted.toParentId = ParentIdOf(bullets', q)
             /\ Emitted.toIndex = LastIdx(q) - 1
    ]_vars

\* a bullet was indented under a sibling that already had a child
IndentMakesLastChildWitness ==
  /\ result.cmd = "indentBullet" /\ result.ok
  /\ LastIdx(Path(result.id)) >= 2

(* C28: outdentBullet on a bullet with a parent makes it the sibling right *)
(* after its former parent, under the former grandparent or in the root    *)
(* list, keeps its subtree, leaves its former later siblings under the     *)
(* former parent, and emits one bullet_outdented event whose toParentId    *)
(* and toIndex are the bullet's new parent and position.                   *)
OutdentFollowsParent ==
  [][ \A id \in KnownIds, now \in Clock :
        (Called("outdentBullet") /\ ~RootLevel(id) /\ OutdentBullet(id, now)) =>
          LET p == Path(id)
              pp == ParentPath(p)
              q == PathAfter(id)
          IN /\ result'.ok
             /\ q = ParentPath(pp) \o <<LastIdx(pp) + 1>>
             /\ NodeAt(bullets', pp).id = NodeAt(bullets, pp).id
             /\ NodeAt(bullets', pp).children = RemoveAt(NodeAt(bullets, pp).children, LastIdx(p))
             /\ OnlyMoved(id)
             /\ EmitsOne("bullet_outdented")
             /\ Emitted.id = id
             /\ Emitted.toParentId = ParentIdOf(bullets', q)
             /\ Emitted.toIndex = LastIdx(q) - 1
    ]_vars

\* a bullet with later siblings was outdented
OutdentFollowsParentWitness ==
  /\ result.cmd = "outdentBullet" /\ result.ok
  /\ LET q == Path(result.id)
     IN /\ LastIdx(q) >= 2
        /\ ChildrenAt(bullets, ParentPath(q))[LastIdx(q) - 1].children # <<>>

IsEmptyBullet(b) == b.content = "" /\ b.context = "" /\ b.children = <<>>

(* C29: createAndInsertBullet with a known afterId adds exactly one new    *)
(* empty bullet, as the first child of afterId when asChild is set and     *)
(* otherwise as the sibling right after afterId; the existing bullets keep *)
(* their order, and the emitted bullet_created event carries the new       *)
(* bullet's parent id and index.  With an unknown afterId it returns null  *)
(* and changes nothing.                                                    *)
CreateInsertsOneBullet ==
  [][ \A afterId \in KnownIds \cup {GhostId}, asChild \in BOOLEAN, now \in Clock :
        (Called("createAndInsertBullet") /\ CreateAndInsertBullet(afterId, asChild, now)) =>
          IF Unknown(afterId)
          THEN /\ result'.newId = Null
               /\ Rejected
          ELSE LET p == Path(afterId)
                   q == PathAfter(result'.newId)
               IN /\ result'.ok
                  /\ result'.newId \notin KnownIds
                  /\ q = IF asChild THEN p \o <<1>>
                         ELSE ParentPath(p) \o <<LastIdx(p) + 1>>
                  /\ IsEmptyBullet(NodeAt(bullets', q))
                  /\ detach(bullets', q) = bullets
                  /\ EmitsOne("bullet_created")
                  /\ Emitted.id = result'.newId
                  /\ Emitted.parentId = ParentIdOf(bullets', q)
                  /\ Emitted.index = LastIdx(q) - 1
    ]_vars

\* a bullet was created in front of bullets that were already there, two or
\* more siblings around it
CreateInsertsOneBulletWitness ==
  /\ result.cmd = "createAndInsertBullet" /\ result.ok
  /\ LET q == Path(result.newId)
     IN /\ Len(ChildrenAt(bullets, ParentPath(q))) >= 3
        /\ LastIdx(q) < Len(ChildrenAt(bullets, ParentPath(q)))

ReplaceIsAtomic ==
  \A i \in 1..Len(inflight) :
    inflight[i].kind = "insert" =>
      \/ EventsOf(dbEvents, inflight[i].ws) = inflight[i].prev
      \/ EventsOf(dbEvents, inflight[i].ws) = WithWs(inflight[i].ws, inflight[i].events)

(* C7: for any tree T, checked bullets included, replaying                  *)
(* createCreationEvents(T, null) yields exactly T.                          *)
CreationEventsRoundTrip ==
  result.cmd = "roundTrip" => replayed = bullets

(* C9: when deleteBullet removes the only bullet shown at the current zoom  *)
(* level, the list shown afterwards holds exactly one bullet, fresh and     *)
(* empty, whose id is returned as newBulletId.                              *)
DeleteLastLeavesFreshBullet ==
  [][ ( /\ cmds' = cmds + 1
        /\ result'.cmd = "deleteBullet"
        /\ result'.ok
        /\ Len(filteredBullets(bullets, zoomedBulletId)) = 1
        /\ filteredBullets(bullets, zoomedBulletId)[1].id = result'.id )
      => ( /\ Len(filteredBullets(bullets', zoomedBulletId')) = 1
           /\ filteredBullets(bullets', zoomedBulletId')[1].id = result'.newId
           /\ result'.newId \notin Range(IdsOf(bullets))
           /\ filteredBullets(bullets', zoomedBulletId')[1].content = ""
           /\ filteredBullets(bullets', zoomedBulletId')[1].children = <<>> ) ]_vars

(* C10: after any sequence of commands, undo, redo, importData and          *)
(* resetToDefault included, every bullet id occurs exactly once in the tree.*)
TreeIsStrictForest ==
  Cardinality(Range(IdsOf(bullets))) = Len(IdsOf(bullets))

-----------------------------------------------------------------------------
(* Claims about password protection *)

Stripped(ws) == StripWs(getAllEvents(dbEvents, ws))

\* an unlock with the locking password has just succeeded, the lock having
\* started with nothing in flight and no command or other operation between
LockedThenUnlocked ==
  /\ result.cmd = "unlockWorkspace"
  /\ result.ok
  /\ flow.phase = "idle"
  /\ inflight = <<>>
  /\ lockSnapshot.taken
  /\ lockSnapshot.quiet
  /\ lockSnapshot.ws = result.ws
  /\ lockSnapshot.password = result.arg
  /\ lockSnapshot.cmds = cmds
  /\ ops = lockSnapshot.ops + 2

(* C2: lock with password P followed by unlock with P leaves the sequence   *)
(* of (type, timestamp, payload) of the workspace's events as it was, and,  *)
(* when the workspace is the active one, the tree after the unlock equals   *)
(* the tree immediately before the lock.                                    *)
LockUnlockRestores ==
  LockedThenUnlocked =>
    /\ Stripped(result.ws) = lockSnapshot.events
    /\ lockSnapshot.active => bullets = lockSnapshot.bullets

\* the workspace is locked, in memory and durably
LockedWith(ws) ==
  /\ HasRecord(workspaces, ws)
  /\ getWorkspaceRecord(workspaces, ws).locked
  /\ HasRecord(dbWorkspaces, ws)
  /\ getWorkspaceRecord(dbWorkspaces, ws).locked
  /\ getWorkspaceRecord(dbWorkspaces, ws).lockTestValue # {}

\* the password the verification ciphertext was made with
LockPassword(ws) ==
  parseVerificationPayload(getWorkspaceRecord(dbWorkspaces, ws).lockTestValue)
    .data.key.password

(* C3 as stated: unlock of a workspace locked with P, called with any       *)
(* P' # P, fails with WORKSPACE_UNLOCK_FAILED.                              *)
WrongPasswordUnlockFailed ==
  ( /\ result.cmd = "unlockWorkspace"
    /\ flow.phase = "idle"
    /\ LockedWith(result.ws)
    /\ result.arg # LockPassword(result.ws) )
  => ( ~result.ok /\ result.code = "WORKSPACE_UNLOCK_FAILED" )

(* C3: unlock of a workspace locked with P, called with P' # P, fails with  *)
(* WORKSPACE_UNLOCK_FAILED when P' is not empty and with                    *)
(* WORKSPACE_PASSWORD_REQUIRED when it is, and in both cases changes        *)
(* neither the stored events, the workspace records nor the in-memory state.*)
WrongPasswordRejected ==
  [][ ( /\ ops' = ops + 1
        /\ flow.phase = "idle"
        /\ result'.cmd = "unlockWorkspace"
        /\ result'.op = ops'
        /\ LockedWith(result'.ws)
        /\ result'.arg # LockPassword(result'.ws) )
      => ( /\ ~result'.ok
           /\ result'.code = IF result'.arg = "" THEN "WORKSPACE_PASSWORD_REQUIRED"
                             ELSE "WORKSPACE_UNLOCK_FAILED"
           /\ UNCHANGED <<treeVars, wsVars, modVars, dbVars, inflight, flow>> ) ]_vars

WrongPasswordRejectedWitness ==
  /\ result.cmd = "unlockWorkspace"
  /\ result.code = "WORKSPACE_UNLOCK_FAILED"
  /\ result.arg = "q"
  /\ flow.phase = "idle"
  /\ LockedWith(result.ws)
  /\ LockPassword(result.ws) = "p"
  /\ lockedWorkspaceId = result.ws

AllEncrypted(events) ==
  \A i \in 1..Len(events) : isEncryptedPayload(events[i].payload)

NoneEncrypted(events) ==
  \A i \in 1..Len(events) : ~isEncryptedPayload(events[i].payload)

(* C4: in every durable state reachable during or after lock and unlock,    *)
(* failures and stops included, a workspace record is marked locked exactly *)
(* when the workspace's non-workspace_* events are stored encrypted.        *)
LockIsAllOrNothing ==
  \A i \in 1..Len(dbWorkspaces) :
    IF dbWorkspaces[i].locked
    THEN AllEncrypted(BulletEvents(EventsOf(dbEvents, dbWorkspaces[i].id)))
    ELSE NoneEncrypted(BulletEvents(EventsOf(dbEvents, dbWorkspaces[i].id)))

(* C6: while the active workspace is locked, no command changes the tree or *)
(* sends anything to the stored events.                                     *)
LockedIsReadOnly ==
  [][ ( /\ lockedWorkspaceId # NoWs
        /\ lockedWorkspaceId = currentWorkspace
        /\ flow.phase = "idle"
        /\ cmds' = cmds + 1 )
      => ( bullets' = bullets /\ inflight' = inflight ) ]_vars

(* C8: the timestamps stored for one workspace are pairwise distinct.       *)
StoredTimestampsDistinct ==
  \A i, j \in 1..Len(dbEvents) :
    (i < j /\ dbEvents[i].workspaceId = dbEvents[j].workspaceId)
      => dbEvents[i].timestamp # dbEvents[j].timestamp

(* C31: when a tree command is issued on the active workspace while its    *)
(* lockWorkspace is in progress, then once the lock has completed and the  *)
(* appends have committed every bullet event stored for the workspace is   *)
(* encrypted: no edit is stored in plaintext.                              *)
EditsDuringLockEncrypted ==
  ( /\ result.cmd = "lockWorkspace" /\ result.ok
    /\ flow = NoFlow /\ inflight = <<>> )
    => AllEncrypted(BulletEvents(EventsOf(dbEvents, result.ws)))

(* C32: a successful tree command issued while the re-seed started by      *)
(* importData or resetToDefault is still in flight gets its event          *)
(* recorded: the recording depth held during the re-seed suppresses no     *)
(* command's event.                                                        *)
CommandsDuringReseedRecorded ==
  [][ ( /\ recordingDepth > 0
        /\ cmds' = cmds + 1
        /\ result'.ok
        /\ result'.cmd \notin {"importData", "resetToDefault", "undo", "redo"}
        /\ bullets' # bullets )
      => Len(inflight') > Len(inflight) ]_vars

-----------------------------------------------------------------------------
(* Switching between stored workspaces while commands are issued *)

\* selectWorkspace(workspaceId) with IndexedDB: loadFromEventStore selects
\* the workspace and then awaits its events; the tree is replaced when the
\* read has resolved
SelectWorkspaceOnline(workspaceId) ==
  /\ storeAvailable
  /\ flow = NoFlow
  /\ ops < MaxOps
  /\ ops' = ops + 1
  /\ IF workspaceId = currentWorkspace \/ ~HasRecord(workspaces, workspaceId)
     THEN Returns(LockResult("selectWorkspace", TRUE, "", workspaceId, ""))
     ELSE /\ StartLoad(workspaceId, workspaces, "selectWorkspace", "")
          /\ UNCHANGED <<workspaces, recordingDepth, lastTimestamp, dbVars, lockSnapshot,
                         nextId, cmds, replayed>>

SwitchCommand ==
  \E now \in Clock :
    \/ \E id \in KnownIds, content \in Contents : UpdateBulletContent(id, content, now)
    \/ CreateEmptyBullet(Null, FALSE, now)

NextSwitch ==
  \/ \E workspaceId \in WorkspaceIds : SelectWorkspaceOnline(workspaceId)
  \/ CommitLoadRead
  \/ CommitAppend
  \/ SwitchCommand

SpecSwitch == Init /\ [][NextSwitch]_vars

\* the ids of the bullets the log of a workspace creates
CreatedIn(db, ws) ==
  {db[i].payload.id : i \in {j \in 1..Len(db) : /\ db[j].workspaceId = ws
                                                  /\ db[j].type = "bullet_created"}}

(* C33: under any interleaving of tree commands with selectWorkspace, no   *)
(* workspace's log receives an event that refers to a bullet of another    *)
(* workspace's tree: a stored bullet event never names a bullet that the   *)
(* log of a different workspace created.                                   *)
EventsStayInOwnWorkspace ==
  \A i \in 1..Len(dbEvents) :
    ~IsWorkspaceEvent(dbEvents[i].type)
      => \A ws \in WorkspaceIds \ {dbEvents[i].workspaceId} :
           dbEvents[i].payload.id \notin CreatedIn(dbEvents, ws)

(* C34: undo and redo preserve the equality of the tree with the replay of *)
(* the stored log: when every append has committed and the tree equals the *)
(* replay, it still does after a successful undo or redo, so a reload      *)
(* yields the tree shown after the undo or redo.                           *)
UndoRedoKeepReplay ==
  [][ ( /\ cmds' = cmds + 1
        /\ result'.cmd \in {"undo", "redo"}
        /\ result'.ok
        /\ inflight = <<>>
        /\ replayEvents(getAllEvents(dbEvents, currentWorkspace)) = bullets )
      => replayEvents(getAllEvents(dbEvents', currentWorkspace')) = bullets' ]_vars

(* C35: in every reachable state of a loaded, unlocked workspace the zoom  *)
(* is null or the id of a bullet of the tree, and the list shown at the    *)
(* current zoom level is not empty.                                        *)
ViewShowsBullets ==
  /\ zoomedBulletId = Null \/ findBulletWithContext(zoomedBulletId, bullets) # <<>>
  /\ filteredBullets(bullets, zoomedBulletId) # <<>>

-----------------------------------------------------------------------------
(* Reloading a workspace when the read of its events can fail *)

\* getAllEvents rejects inside loadFromEventStore: the catch block builds the
\* welcome tree and starts replaceEventStoreWithTree for the workspace
FailLoadRead ==
  /\ inflight # <<>>
  /\ Head(inflight).kind = "read"
  /\ Head(inflight).owner = "load"
  /\ \E now \in Clock :
       LET tree == createWelcomeTree(nextId, now)
           creation == createCreationEvents(tree, Null, now, lastTimestamp)
       IN /\ lastTimestamp' = LastStamp(creation, lastTimestamp)
          /\ nextId' = nextId + Len(IdsOf(tree))
          /\ inflight' = Append(Tail(inflight), Tx("clear", "load", flow.ws, creation))
          /\ flow' = [phase |-> "load-seed", cmd |-> flow.cmd, ws |-> flow.ws,
                      password |-> flow.password, tree |-> tree]
  /\ UNCHANGED <<treeVars, wsVars, recordingDepth, activeWorkspace, dbVars, lockSnapshot,
                 cmds, ops, result, replayed>>

NextReload ==
  \/ Restart
  \/ \E workspaceId \in WorkspaceIds : SelectWorkspaceOnline(workspaceId)
  \/ CommitLoadRead
  \/ FailLoadRead
  \/ CommitClear
  \/ CommitInsert
  \/ CommitAppend
  \/ SwitchCommand

SpecReload == Init /\ [][NextReload]_vars

(* C36: loading never alters a non-empty stored history: while the         *)
(* workspace being loaded holds at least one bullet event, no step of      *)
(* loadFromEventStore changes the events stored for it, whether the read   *)
(* succeeds or fails.                                                      *)
LoadKeepsHistory ==
  [][ ( /\ inflight # <<>>
        /\ Head(inflight).owner = "load"
        /\ cmds' = cmds
        /\ ops' = ops
        /\ BulletEvents(EventsOf(dbEvents, flow.ws)) # <<>> )
      => EventsOf(dbEvents', flow.ws) = EventsOf(dbEvents, flow.ws) ]_vars

-----------------------------------------------------------------------------
(* replayEvents on logs the store never wrote *)

ReplayIds == {1, 2, 9}

ReplayParents == {Null, 2, GhostId}

ReplayIndexes == {-1, 0, 5}

\* events any log may hold: creates and moves under known, unknown and
\* descendant parents, at indexes inside and outside the sibling range
ReplayInputs ==
  UNION {
    {[type |-> "bullet_created",
      payload |-> [id |-> id, content |-> "", context |-> "", collapsed |-> FALSE,
                   createdAt |-> 1, parentId |-> parentId, index |-> index]] :
       parentId \in ReplayParents, index \in ReplayIndexes}
    \cup {[type |-> "bullet_moved",
           payload |-> [id |-> id, parentId |-> parentId, toIndex |-> index]] :
            parentId \in ReplayParents, index \in ReplayIndexes}
    \cup {[type |-> "bullet_deleted", payload |-> [id |-> id]],
          [type |-> "bullet_content_updated", payload |-> [id |-> id, content |-> "x"]]} :
    id \in ReplayIds}

\* the loop of replayEvents run on the stored log followed by the events
\* chosen so far and one more; before is the replay state ahead of the last
\* event
ReplayAppended(e) ==
  LET events == IF result.cmd = "replayEvents" THEN result.doc
                ELSE BulletEvents(StripWs(getAllEvents(dbEvents, currentWorkspace)))
  IN /\ ops < MaxOps
     /\ ops' = ops + 1
     /\ replayed' = replayFrom(createState, Append(events, e), 1)
     /\ result' = [Res("replayEvents", TRUE, "", Null) EXCEPT
                     !.arg = e, !.doc = Append(events, e),
                     !.before = replayFrom(createState, events, 1)]
     /\ UNCHANGED <<treeVars, wsVars, modVars, dbVars, asyncVars, nextId, cmds>>

NextReplayer == \E e \in ReplayInputs : ReplayAppended(e)

SpecReplayer == Init /\ [][NextReplayer]_vars

\* the children list of p in a replay state, the root list for Null
KidsOf(st, p) == IF p = Null THEN st.root ELSE st.nodes[p].children

\* the ids reached from the set S within n steps down the children lists
RECURSIVE Reached(_, _, _)
Reached(st, S, n) ==
  IF n = 0 THEN S
  ELSE Reached(st,
               S \cup UNION {Range(st.nodes[x].children) : x \in S \cap DOMAIN st.nodes},
               n - 1)

\* the places of id in the root list and the children lists of the nodes in S
SlotsOf(st, S, id) ==
  UNION {{<<p, i>> : i \in {j \in 1..Len(KidsOf(st, p)) : KidsOf(st, p)[j] = id}} :
           p \in S \cup {Null}}

(* C37: for every event sequence the forest returned by replayEvents has   *)
(* pairwise distinct ids and no cycles (every bullet of the forest is      *)
(* registered and sits in exactly one children list), and every bullet     *)
(* registered in the node map is reachable from the returned root list.    *)
ReplayedForestSound ==
  result.cmd = "replayEvents" =>
    LET st == replayed
        forest == Reached(st, Range(st.root), Cardinality(DOMAIN st.nodes))
    IN /\ forest \subseteq DOMAIN st.nodes
       /\ \A id \in forest : Cardinality(SlotsOf(st, forest \cap DOMAIN st.nodes, id)) = 1
       /\ DOMAIN st.nodes \subseteq forest

(* C38: in replayEvents an event that names an id in the wrong state is a  *)
(* no-op (a create of a known id; an update, move or delete of an unknown  *)
(* id); after bullet_deleted of a known bullet the bullet and all its      *)
(* descendants are unknown; a create of an unknown id under a known parent *)
(* makes a childless bullet at its index clamped into [0, sibling count].  *)
WrongStateEventsIgnored ==
  result.cmd = "replayEvents" =>
    LET e == result.arg
        id == e.payload.id
        before == result.before
        known == HasNode(before, id)
    IN /\ (e.type = "bullet_created" /\ known) => replayed = before
       /\ (e.type # "bullet_created" /\ ~known) => replayed = before
       /\ (e.type = "bullet_deleted" /\ known)
            => \A x \in Reached(before, {id}, Cardinality(DOMAIN before.nodes)) :
                 ~HasNode(replayed, x)
       /\ ( /\ e.type = "bullet_created"
            /\ ~known
            /\ getChildren(before, e.payload.parentId).found )
            => LET siblings == getChildren(before, e.payload.parentId).list
                   at == Min(Max(e.payload.index, 0), Len(siblings))
               IN /\ replayed.nodes[id].children = <<>>
                  /\ KidsOf(replayed, e.payload.parentId) = InsertAt(siblings, at, id)

-----------------------------------------------------------------------------
(* bootstrap() against an empty durable store, with calls that overlap *)

\* flow holds isBootstrapped and, for every call of bootstrap() that passed
\* the isBootstrapped test, the await it is suspended at
BootCalls == IF flow.phase = "bootstrap" THEN flow.calls ELSE <<>>

\* until bootstrap has run the workspace list is empty
isBootstrapped ==
  IF flow.phase = "bootstrap" THEN flow.isBootstrapped ELSE workspaces # <<>>

BootFlow(calls, done) == [phase |-> "bootstrap", isBootstrapped |-> done, calls |-> calls]

\* the record c with the fields of d set
With(c, d) == [k \in DOMAIN c \cup DOMAIN d |-> IF k \in DOMAIN d THEN d[k] ELSE c[k]]

\* IndexedDB runs the transactions in the order they were started: every
\* suspended call holds the ticket of the transaction it awaits, and the
\* call with the oldest ticket is resumed first
Ticket ==
  LET held == {0} \cup {BootCalls[j].at : j \in {k \in 1..Len(BootCalls) :
                                                  BootCalls[k].pc # "done"}}
  IN 1 + CHOOSE t \in held : \A u \in held : u <= t

Turn(i) ==
  \A j \in 1..Len(BootCalls) :
    (j # i /\ BootCalls[j].pc # "done") => BootCalls[j].at > BootCalls[i].at

\* the command call i belongs to
CallCmd(i) == IF "cmd" \in DOMAIN BootCalls[i] THEN BootCalls[i].cmd ELSE "bootstrap"

\* the calls with call i set to c; i past the end starts a new call
WithCall(i, c) ==
  LET call == IF c.pc = "done" THEN c ELSE With(c, [at |-> Ticket])
  IN BootFlow(IF i > Len(BootCalls) THEN Append(BootCalls, call)
              ELSE [BootCalls EXCEPT ![i] = call], isBootstrapped)

NewCall == Len(BootCalls) + 1

\* loadFromEventStore(ws) up to its first await, run by call i with
\* self.workspaces = records
BeginLoad(i, c, ws, records) ==
  /\ activeWorkspace' = ws
  /\ currentWorkspace' = ws
  /\ IF HasRecord(records, ws) /\ getWorkspaceRecord(records, ws).locked
     THEN /\ lockedWorkspaceId' = ws
          /\ zoomedBulletId' = Null
          /\ bullets' = <<>>
          /\ history' = <<>>
          /\ historyIndex' = -1
          /\ flow' = WithCall(i, [pc |-> "done"])
          /\ result' = LockResult(c.cmd, TRUE, "", ws, "")
     ELSE /\ lockedWorkspaceId' = NoWs
          /\ flow' = WithCall(i, With(c, [pc |-> "load", ws |-> ws]))
          /\ UNCHANGED <<treeVars, result>>

\* a store freshly created by initializeStore() over an empty database
InitEmpty ==
  /\ bullets = <<>>
  /\ zoomedBulletId = Null
  /\ history = <<>>
  /\ historyIndex = -1
  /\ workspaces = <<>>
  /\ currentWorkspace = NoWs
  /\ lockedWorkspaceId = NoWs
  /\ recordingDepth = 0
  /\ lastTimestamp = 0
  /\ activeWorkspace = NoWs
  /\ dbEvents = <<>>
  /\ dbWorkspaces = <<>>
  /\ storeAvailable = TRUE
  /\ hasWindow = TRUE
  /\ inflight = <<>>
  /\ flow = NoFlow
  /\ lockSnapshot = NoLockSnapshot
  /\ nextId = 1
  /\ cmds = 0
  /\ ops = 0
  /\ result = Res("initializeStore", TRUE, "", Null)
  /\ replayed = <<>>

\* bootstrap() is called: once bootstrapped it returns currentWorkspace,
\* otherwise it awaits listWorkspaces()
BootstrapCall(initialWorkspaceId) ==
  /\ ops < MaxOps
  /\ ops' = ops + 1
  /\ IF isBootstrapped
     THEN IF /\ initialWorkspaceId \notin {NoWs, currentWorkspace}
             /\ HasRecord(workspaces, initialWorkspaceId)
          THEN /\ BeginLoad(NewCall, [cmd |-> "bootstrap"], initialWorkspaceId, workspaces)
               /\ UNCHANGED workspaces
          ELSE /\ result' = LockResult("bootstrap", TRUE, "", currentWorkspace, "")
               /\ UNCHANGED <<treeVars, wsVars, activeWorkspace, flow>>
     ELSE /\ flow' = BootFlow(Append(BootCalls, [pc |-> "list", at |-> Ticket,
                                                 initial |-> initialWorkspaceId]), FALSE)
          /\ UNCHANGED <<treeVars, wsVars, activeWorkspace, result>>
  /\ UNCHANGED <<recordingDepth, lastTimestamp, dbVars, inflight, lockSnapshot, nextId,
                 cmds, replayed>>

\* applyWorkspaceRecords(records) and the start of loadFromEventStore for
\* the first record: the selection is persisted, then the events are read
BootApply(i, records) ==
  LET initial == BootCalls[i].initial
      target == IF initial # NoWs /\ HasRecord(records, initial) THEN initial
                ELSE records[1].id
      applied == applyWorkspaceRecords(records)
  IN /\ workspaces' = applied
     /\ activeWorkspace' = target
     /\ currentWorkspace' = target
     /\ IF getWorkspaceRecord(applied, target).locked
        THEN /\ lockedWorkspaceId' = target
             /\ zoomedBulletId' = Null
             /\ bullets' = <<>>
             /\ history' = <<>>
             /\ historyIndex' = -1
             /\ flow' = BootFlow([BootCalls EXCEPT ![i] = [pc |-> "done"]], TRUE)
             /\ result' = LockResult("bootstrap", TRUE, "", target, "")
        ELSE /\ lockedWorkspaceId' = NoWs
             /\ flow' = [flow EXCEPT !.calls[i] = With(@, [pc |-> "load", ws |-> target,
                                                              at |-> Ticket])]
             /\ UNCHANGED <<treeVars, result>>

\* listWorkspaces() resolves: on an empty list createWorkspaceRecord draws
\* an id and starts its transaction
BootList(i) ==
  /\ i \in 1..Len(BootCalls)
  /\ BootCalls[i].pc = "list"
  /\ Turn(i)
  /\ LET records == listWorkspaces(dbWorkspaces)
     IN IF records = <<>>
        THEN \E id \in WorkspaceIds, now \in Clock :
               /\ ~HasRecord(dbWorkspaces, id)
               /\ \A j \in 1..Len(BootCalls) :
                    BootCalls[j].pc = "create" => BootCalls[j].record.id # id
               /\ flow' = [flow EXCEPT !.calls[i] =
                             With(@, [pc |-> "create", at |-> Ticket,
                                      record |-> WsRecord(id, "Default", now)])]
               /\ UNCHANGED <<treeVars, wsVars, activeWorkspace, result>>
        ELSE BootApply(i, records)
  /\ UNCHANGED <<recordingDepth, lastTimestamp, dbVars, inflight, lockSnapshot, nextId,
                 cmds, ops, replayed>>

\* the transaction of createWorkspaceRecord commits; bootstrap awaits
\* listWorkspaces() again
BootCreate(i) ==
  /\ i \in 1..Len(BootCalls)
  /\ BootCalls[i].pc = "create"
  /\ Turn(i)
  /\ dbWorkspaces' = Append(dbWorkspaces, BootCalls[i].record)
  /\ flow' = [flow EXCEPT !.calls[i] = With(@, [pc |-> "relist", at |-> Ticket])]
  /\ UNCHANGED <<treeVars, wsVars, modVars, dbEvents, storeAvailable, hasWindow, inflight,
                 lockSnapshot, auxVars>>

\* the second listWorkspaces() resolves
BootRelist(i) ==
  /\ i \in 1..Len(BootCalls)
  /\ BootCalls[i].pc = "relist"
  /\ Turn(i)
  /\ BootApply(i, listWorkspaces(dbWorkspaces))
  /\ UNCHANGED <<recordingDepth, lastTimestamp, dbVars, inflight, lockSnapshot, nextId,
                 cmds, ops, replayed>>

\* the end of loadFromEventStore and of bootstrap
BootFinish(i, tree) ==
  LET z == IF zoomedBulletId # Null /\ findBulletWithContext(zoomedBulletId, tree) # <<>>
           THEN zoomedBulletId ELSE Null
  IN /\ bullets' = tree
     /\ zoomedBulletId' = z
     /\ history' = <<Snapshot(tree, z)>>
     /\ historyIndex' = 0
     /\ flow' = BootFlow([BootCalls EXCEPT ![i] = [pc |-> "done"]], TRUE)
     /\ result' = LockResult(CallCmd(i), TRUE, "", currentWorkspace, "")

\* getAllEvents resolves inside loadFromEventStore
BootLoadRead(i) ==
  /\ i \in 1..Len(BootCalls)
  /\ BootCalls[i].pc = "load"
  /\ Turn(i)
  /\ LET ws == BootCalls[i].ws
         events == getAllEvents(dbEvents, ws)
         latest == MaxTimestamp(events, lastTimestamp)
         bulletEvents == BulletEvents(events)
         workspaceEvents == StripWs(WorkspaceEvents(events))
     IN IF bulletEvents # <<>>
        THEN /\ lastTimestamp' = latest
             /\ BootFinish(i, replayEvents(bulletEvents))
             /\ UNCHANGED nextId
        ELSE \E now \in Clock :
               LET tree == IF workspaceEvents # <<>>
                           THEN createBlankWorkspaceTree(nextId, now)
                           ELSE createWelcomeTree(nextId, now)
                   creation == createCreationEvents(tree, Null, now, latest)
               IN /\ lastTimestamp' = LastStamp(creation, latest)
                  /\ nextId' = nextId + Len(IdsOf(tree))
                  /\ flow' = [flow EXCEPT !.calls[i] =
                                With(@, [pc |-> "seed-clear", ws |-> ws, tree |-> tree,
                                         events |-> workspaceEvents \o creation,
                                         at |-> Ticket])]
                  /\ UNCHANGED <<treeVars, result>>
  /\ UNCHANGED <<wsVars, recordingDepth, activeWorkspace, dbVars, inflight, lockSnapshot,
                 cmds, ops, replayed>>

\* replaceWorkspaceEvents, first transaction
BootSeedClear(i) ==
  /\ i \in 1..Len(BootCalls)
  /\ BootCalls[i].pc = "seed-clear"
  /\ Turn(i)
  /\ dbEvents' = clearEventsForWorkspace(dbEvents, BootCalls[i].ws)
  /\ flow' = [flow EXCEPT !.calls[i] = With(@, [pc |-> "seed-insert", at |-> Ticket])]
  /\ UNCHANGED <<treeVars, wsVars, modVars, dbWorkspaces, storeAvailable, hasWindow,
                 inflight, lockSnapshot, auxVars>>

\* replaceWorkspaceEvents, second transaction
BootSeedInsert(i) ==
  /\ i \in 1..Len(BootCalls)
  /\ BootCalls[i].pc = "seed-insert"
  /\ Turn(i)
  /\ dbEvents' = bulkInsertEvents(dbEvents, BootCalls[i].ws, BootCalls[i].events)
  /\ BootFinish(i, BootCalls[i].tree)
  /\ UNCHANGED <<wsVars, modVars, dbWorkspaces, storeAvailable, hasWindow, inflight,
                 lockSnapshot, nextId, cmds, ops, replayed>>

NextBootstrap ==
  \/ \E initialWorkspaceId \in WorkspaceIds \cup {NoWs} : BootstrapCall(initialWorkspaceId)
  \/ \E i \in 1..MaxOps :
       \/ BootList(i)
       \/ BootCreate(i)
       \/ BootRelist(i)
       \/ BootLoadRead(i)
       \/ BootSeedClear(i)
       \/ BootSeedInsert(i)

SpecBootstrap == InitEmpty /\ [][NextBootstrap]_vars

(* C39: bootstrap is idempotent under overlap: when every call of          *)
(* bootstrap() made against a store without workspace records has          *)
(* finished, exactly one workspace record exists, and isBootstrapped is    *)
(* true only when a workspace has been loaded.                             *)
BootstrapIdempotent ==
  /\ isBootstrapped => currentWorkspace # NoWs /\ HasRecord(workspaces, currentWorkspace)
  /\ ( /\ BootCalls # <<>>
       /\ \A i \in 1..Len(BootCalls) : BootCalls[i].pc = "done" )
       => Len(dbWorkspaces) = 1

-----------------------------------------------------------------------------
(* The workspace commands with IndexedDB: every call is a flow that is     *)
(* suspended at its awaits, and calls may overlap                          *)

NewWorkspaceIds == {"w3", "w4"}

\* the names given to createWorkspace and renameCurrentWorkspace
NewNames == {"", "Notes"}

\* generateWorkspaceId(): an id that no record and no pending call holds
FreshWorkspaceId(id) ==
  /\ id \in NewWorkspaceIds
  /\ ~HasRecord(dbWorkspaces, id)
  /\ ~HasRecord(workspaces, id)
  /\ \A j \in 1..Len(BootCalls) :
       "record" \in DOMAIN BootCalls[j] => BootCalls[j].record.id # id

\* a flow that throws
Throw(i, code) ==
  /\ flow' = WithCall(i, [pc |-> "done"])
  /\ result' = LockResult(CallCmd(i), FALSE, code, NoWs, "")

\* selectWorkspace(workspaceId)
SelectCall(workspaceId) ==
  /\ storeAvailable
  /\ ops < MaxOps
  /\ ops' = ops + 1
  /\ IF workspaceId = currentWorkspace \/ ~HasRecord(workspaces, workspaceId)
     THEN Returns(LockResult("selectWorkspace", TRUE, "", workspaceId, ""))
     ELSE /\ BeginLoad(NewCall, [cmd |-> "selectWorkspace"], workspaceId, workspaces)
          /\ UNCHANGED <<workspaces, recordingDepth, lastTimestamp, dbVars, inflight,
                         lockSnapshot, nextId, cmds, replayed>>

\* createWorkspace(workspaceName) up to the await of createWorkspaceRecord
CreateCall(workspaceName, now) ==
  /\ storeAvailable
  /\ ops < MaxOps
  /\ ops' = ops + 1
  /\ IF workspaceName = ""
     THEN Returns(LockResult("createWorkspace", FALSE, "WORKSPACE_NAME_REQUIRED", NoWs, ""))
     ELSE \E id \in NewWorkspaceIds :
            /\ FreshWorkspaceId(id)
            /\ flow' = WithCall(NewCall, [cmd |-> "createWorkspace", pc |-> "ws-create",
                                          ws |-> id,
                                          record |-> WsRecord(id, workspaceName, now)])
            /\ result' = LockResult("createWorkspace", FALSE, "pending", id, "")
            /\ UNCHANGED <<treeVars, wsVars, modVars, dbVars, inflight, lockSnapshot,
                           nextId, cmds, replayed>>

\* the transaction of createWorkspaceRecord commits and createWorkspace
\* starts appendEvent with workspace_created
CreateRecord(i) ==
  /\ i \in 1..Len(BootCalls)
  /\ BootCalls[i].pc = "ws-create"
  /\ Turn(i)
  /\ dbWorkspaces' = Append(dbWorkspaces, BootCalls[i].record)
  /\ \E now \in Clock :
       LET ts == nextTimestamp(now, lastTimestamp)
           r == BootCalls[i].record
       IN /\ lastTimestamp' = ts
          /\ flow' = WithCall(i, With(BootCalls[i],
                        [pc |-> "ws-append",
                         event |-> [type |-> "workspace_created",
                                    payload |-> [id |-> r.id, name |-> r.name,
                                                 createdAt |-> r.createdAt],
                                    timestamp |-> ts]]))
  /\ UNCHANGED <<treeVars, wsVars, recordingDepth, activeWorkspace, dbEvents,
                 storeAvailable, hasWindow, inflight, lockSnapshot, auxVars>>

\* renameCurrentWorkspace(nextName) up to the await of renameWorkspaceRecord
RenameCall(nextName) ==
  /\ storeAvailable
  /\ ops < MaxOps
  /\ ops' = ops + 1
  /\ IF currentWorkspace = NoWs \/ ~HasRecord(workspaces, currentWorkspace)
     THEN Returns(LockResult("renameCurrentWorkspace", TRUE, "", currentWorkspace, ""))
     ELSE IF nextName = ""
     THEN Returns(LockResult("renameCurrentWorkspace", FALSE, "WORKSPACE_NAME_REQUIRED",
                             currentWorkspace, ""))
     ELSE IF nextName = getWorkspaceRecord(workspaces, currentWorkspace).name
     THEN Returns(LockResult("renameCurrentWorkspace", TRUE, "", currentWorkspace, ""))
     ELSE /\ flow' = WithCall(NewCall, [cmd |-> "renameCurrentWorkspace", pc |-> "rename",
                                        ws |-> currentWorkspace, name |-> nextName])
          /\ result' = LockResult("renameCurrentWorkspace", FALSE, "pending",
                                  currentWorkspace, "")
          /\ UNCHANGED <<treeVars, wsVars, modVars, dbVars, inflight, lockSnapshot, nextId,
                         cmds, replayed>>

\* the transaction of renameWorkspaceRecord runs: an unknown id throws,
\* otherwise the record is put and appendEvent starts with workspace_renamed
RenameRecord(i) ==
  /\ i \in 1..Len(BootCalls)
  /\ BootCalls[i].pc = "rename"
  /\ Turn(i)
  /\ LET id == BootCalls[i].ws
     IN IF ~HasRecord(dbWorkspaces, id)
        THEN /\ Throw(i, "WORKSPACE_NOT_FOUND")
             /\ UNCHANGED <<dbWorkspaces, lastTimestamp>>
        ELSE \E now \in Clock :
               LET ts == nextTimestamp(now, lastTimestamp)
               IN /\ dbWorkspaces' = [k \in 1..Len(dbWorkspaces) |->
                                        IF dbWorkspaces[k].id = id
                                        THEN [dbWorkspaces[k] EXCEPT
                                                !.name = BootCalls[i].name,
                                                !.updatedAt = now]
                                        ELSE dbWorkspaces[k]]
                  /\ lastTimestamp' = ts
                  /\ flow' = WithCall(i, With(BootCalls[i],
                                [pc |-> "ws-append",
                                 event |-> [type |-> "workspace_renamed",
                                            payload |-> [id |-> id,
                                                         name |-> BootCalls[i].name,
                                                         updatedAt |-> now],
                                            timestamp |-> ts]]))
                  /\ UNCHANGED result
  /\ UNCHANGED <<treeVars, wsVars, recordingDepth, activeWorkspace, dbEvents,
                 storeAvailable, hasWindow, inflight, lockSnapshot, nextId, cmds, ops,
                 replayed>>

\* the appendEvent awaited by createWorkspace and renameCurrentWorkspace
\* commits; the flow awaits listWorkspaces()
AppendWorkspaceEvent(i) ==
  /\ i \in 1..Len(BootCalls)
  /\ BootCalls[i].pc = "ws-append"
  /\ Turn(i)
  /\ dbEvents' = dbEvents \o WithWs(BootCalls[i].ws, <<BootCalls[i].event>>)
  /\ flow' = WithCall(i, With(BootCalls[i], [pc |-> "ws-list"]))
  /\ UNCHANGED <<treeVars, wsVars, modVars, dbWorkspaces, storeAvailable, hasWindow,
                 inflight, lockSnapshot, auxVars>>

\* listWorkspaces() resolves in createWorkspace and renameCurrentWorkspace:
\* the records are applied and loadFromEventStore starts for the new
\* record, or for the id that was current when the rename was called
ListAndLoad(i) ==
  /\ i \in 1..Len(BootCalls)
  /\ BootCalls[i].pc = "ws-list"
  /\ Turn(i)
  /\ workspaces' = applyWorkspaceRecords(listWorkspaces(dbWorkspaces))
  /\ BeginLoad(i, BootCalls[i], BootCalls[i].ws, workspaces')
  /\ UNCHANGED <<recordingDepth, lastTimestamp, dbVars, inflight, lockSnapshot, nextId,
                 cmds, ops, replayed>>

\* deleteCurrentWorkspace() up to the await of deleteWorkspaceRecord
DeleteCall ==
  /\ storeAvailable
  /\ ops < MaxOps
  /\ ops' = ops + 1
  /\ IF currentWorkspace = NoWs
     THEN Returns(LockResult("deleteCurrentWorkspace", TRUE, "", NoWs, ""))
     ELSE /\ lockedWorkspaceId' = IF lockedWorkspaceId = currentWorkspace THEN NoWs
                                  ELSE lockedWorkspaceId
          /\ flow' = WithCall(NewCall, [cmd |-> "deleteCurrentWorkspace", pc |-> "delete",
                                        ws |-> currentWorkspace])
          /\ result' = LockResult("deleteCurrentWorkspace", FALSE, "pending",
                                  currentWorkspace, "")
          /\ UNCHANGED <<treeVars, workspaces, currentWorkspace, modVars, dbVars, inflight,
                         lockSnapshot, nextId, cmds, replayed>>

\* the transaction of deleteWorkspaceRecord runs; the flow awaits
\* listWorkspaces()
DeleteRecord(i) ==
  /\ i \in 1..Len(BootCalls)
  /\ BootCalls[i].pc = "delete"
  /\ Turn(i)
  /\ LET id == BootCalls[i].ws
     IN IF ~HasRecord(dbWorkspaces, id)
        THEN /\ Throw(i, "WORKSPACE_NOT_FOUND")
             /\ UNCHANGED <<dbWorkspaces, dbEvents>>
        ELSE /\ dbWorkspaces' = WithoutRecord(dbWorkspaces, id)
             /\ dbEvents' = clearEventsForWorkspace(dbEvents, id)
             /\ flow' = WithCall(i, With(BootCalls[i], [pc |-> "delete-list"]))
             /\ UNCHANGED result
  /\ UNCHANGED <<treeVars, wsVars, modVars, storeAvailable, hasWindow, inflight,
                 lockSnapshot, nextId, cmds, ops, replayed>>

\* listWorkspaces() resolves in deleteCurrentWorkspace: with records left
\* the first is loaded, with none the welcome tree is built and
\* createWorkspaceRecord starts
DeleteList(i) ==
  /\ i \in 1..Len(BootCalls)
  /\ BootCalls[i].pc = "delete-list"
  /\ Turn(i)
  /\ LET records == listWorkspaces(dbWorkspaces)
     IN IF records # <<>>
        THEN /\ workspaces' = applyWorkspaceRecords(records)
             /\ BeginLoad(i, BootCalls[i], records[1].id, workspaces')
             /\ UNCHANGED nextId
        ELSE \E id \in NewWorkspaceIds, now \in Clock :
               LET tree == createWelcomeTree(nextId, now)
               IN /\ FreshWorkspaceId(id)
                  /\ nextId' = nextId + Len(IdsOf(tree))
                  /\ flow' = WithCall(i, With(BootCalls[i],
                                [pc |-> "default-create", tree |-> tree,
                                 record |-> WsRecord(id, "Default", now)]))
                  /\ UNCHANGED <<treeVars, wsVars, activeWorkspace, result>>
  /\ UNCHANGED <<recordingDepth, lastTimestamp, dbVars, inflight, lockSnapshot, cmds, ops,
                 replayed>>

\* deleteAllWorkspaces() up to the await of the event store's
\* deleteAllWorkspaces
DeleteAllCall ==
  /\ storeAvailable
  /\ ops < MaxOps
  /\ ops' = ops + 1
  /\ lockedWorkspaceId' = NoWs
  /\ flow' = WithCall(NewCall, [cmd |-> "deleteAllWorkspaces", pc |-> "wipe"])
  /\ result' = LockResult("deleteAllWorkspaces", FALSE, "pending", NoWs, "")
  /\ UNCHANGED <<treeVars, workspaces, currentWorkspace, modVars, dbVars, inflight,
                 lockSnapshot, nextId, cmds, replayed>>

\* both object stores are cleared in one transaction; the welcome tree is
\* built and createWorkspaceRecord starts
Wipe(i) ==
  /\ i \in 1..Len(BootCalls)
  /\ BootCalls[i].pc = "wipe"
  /\ Turn(i)
  /\ dbWorkspaces' = <<>>
  /\ dbEvents' = <<>>
  /\ \E id \in NewWorkspaceIds, now \in Clock :
       LET tree == createWelcomeTree(nextId, now)
       IN /\ FreshWorkspaceId(id)
          /\ nextId' = nextId + Len(IdsOf(tree))
          /\ flow' = WithCall(i, With(BootCalls[i],
                        [pc |-> "default-create", tree |-> tree,
                         record |-> WsRecord(id, "Default", now)]))
  /\ UNCHANGED <<treeVars, wsVars, modVars, storeAvailable, hasWindow, inflight,
                 lockSnapshot, cmds, ops, result, replayed>>

\* the default record is added.  deleteCurrentWorkspace awaits
\* listWorkspaces() next, deleteAllWorkspaces starts replaceEventStoreWithTree
DefaultCreate(i) ==
  /\ i \in 1..Len(BootCalls)
  /\ BootCalls[i].pc = "default-create"
  /\ Turn(i)
  /\ dbWorkspaces' = Append(dbWorkspaces, BootCalls[i].record)
  /\ IF BootCalls[i].cmd = "deleteCurrentWorkspace"
     THEN /\ flow' = WithCall(i, With(BootCalls[i], [pc |-> "default-list"]))
          /\ UNCHANGED lastTimestamp
     ELSE \E now \in Clock :
            LET creation == createCreationEvents(BootCalls[i].tree, Null, now, lastTimestamp)
            IN /\ lastTimestamp' = LastStamp(creation, lastTimestamp)
               /\ flow' = WithCall(i, With(BootCalls[i],
                             [pc |-> "default-clear", events |-> creation]))
  /\ UNCHANGED <<treeVars, wsVars, recordingDepth, activeWorkspace, dbEvents,
                 storeAvailable, hasWindow, inflight, lockSnapshot, auxVars>>

\* deleteCurrentWorkspace: the second listWorkspaces() resolves and
\* replaceEventStoreWithTree starts for the default record
DefaultList(i) ==
  /\ i \in 1..Len(BootCalls)
  /\ BootCalls[i].pc = "default-list"
  /\ Turn(i)
  /\ \E now \in Clock :
       LET creation == createCreationEvents(BootCalls[i].tree, Null, now, lastTimestamp)
       IN /\ lastTimestamp' = LastStamp(creation, lastTimestamp)
          /\ flow' = WithCall(i, With(BootCalls[i],
                        [pc |-> "default-clear", events |-> creation,
                         records |-> listWorkspaces(dbWorkspaces)]))
  /\ UNCHANGED <<treeVars, wsVars, recordingDepth, activeWorkspace, dbVars, inflight,
                 lockSnapshot, auxVars>>

\* replaceWorkspaceEvents for the default record, first transaction
DefaultClear(i) ==
  /\ i \in 1..Len(BootCalls)
  /\ BootCalls[i].pc = "default-clear"
  /\ Turn(i)
  /\ dbEvents' = clearEventsForWorkspace(dbEvents, BootCalls[i].record.id)
  /\ flow' = WithCall(i, With(BootCalls[i], [pc |-> "default-insert"]))
  /\ UNCHANGED <<treeVars, wsVars, modVars, dbWorkspaces, storeAvailable, hasWindow,
                 inflight, lockSnapshot, auxVars>>

\* replaceWorkspaceEvents for the default record, second transaction.
\* deleteCurrentWorkspace applies the records it listed and loads the first,
\* deleteAllWorkspaces awaits listWorkspaces()
DefaultInsert(i) ==
  /\ i \in 1..Len(BootCalls)
  /\ BootCalls[i].pc = "default-insert"
  /\ Turn(i)
  /\ dbEvents' = bulkInsertEvents(dbEvents, BootCalls[i].record.id, BootCalls[i].events)
  /\ IF BootCalls[i].cmd = "deleteCurrentWorkspace"
     THEN LET records == IF BootCalls[i].records = <<>>
                         THEN listWorkspaces(<<BootCalls[i].record>>)
                         ELSE BootCalls[i].records
          IN /\ workspaces' = applyWorkspaceRecords(records)
             /\ BeginLoad(i, BootCalls[i], records[1].id, workspaces')
     ELSE /\ flow' = WithCall(i, With(BootCalls[i], [pc |-> "wipe-list"]))
          /\ UNCHANGED <<treeVars, wsVars, activeWorkspace, result>>
  /\ UNCHANGED <<recordingDepth, lastTimestamp, dbWorkspaces, storeAvailable, hasWindow,
                 inflight, lockSnapshot, nextId, cmds, ops, replayed>>

\* deleteAllWorkspaces: listWorkspaces() resolves, the records are applied
\* and the default record is loaded
WipeList(i) ==
  /\ i \in 1..Len(BootCalls)
  /\ BootCalls[i].pc = "wipe-list"
  /\ Turn(i)
  /\ LET listed == listWorkspaces(dbWorkspaces)
         records == IF listed = <<>> THEN listWorkspaces(<<BootCalls[i].record>>)
                    ELSE listed
     IN /\ workspaces' = applyWorkspaceRecords(records)
        /\ BeginLoad(i, BootCalls[i], BootCalls[i].record.id, workspaces')
  /\ UNCHANGED <<recordingDepth, lastTimestamp, dbVars, inflight, lockSnapshot, nextId,
                 cmds, ops, replayed>>

NextWorkspaces ==
  \/ \E workspaceId \in WorkspaceIds : SelectCall(workspaceId)
  \/ \E workspaceName \in NewNames, now \in Clock : CreateCall(workspaceName, now)
  \/ \E nextName \in NewNames : RenameCall(nextName)
  \/ DeleteCall
  \/ DeleteAllCall
  \/ \E i \in 1..MaxOps :
       \/ CreateRecord(i)
       \/ RenameRecord(i)
       \/ AppendWorkspaceEvent(i)
       \/ ListAndLoad(i)
       \/ DeleteRecord(i)
       \/ DeleteList(i)
       \/ Wipe(i)
       \/ DefaultCreate(i)
       \/ DefaultList(i)
       \/ DefaultClear(i)
       \/ DefaultInsert(i)
       \/ WipeList(i)
       \/ BootLoadRead(i)
       \/ BootSeedClear(i)
       \/ BootSeedInsert(i)

SpecWorkspaces == Init /\ [][NextWorkspaces]_vars

(* C40: after bootstrap, at every quiescent point that follows workspace   *)
(* commands (every call has finished) the workspace list is non-empty,     *)
(* currentWorkspace is the id of a listed workspace, and the active        *)
(* workspace used for event emission equals currentWorkspace.              *)
WorkspaceSelectionValid ==
  (\A i \in 1..Len(BootCalls) : BootCalls[i].pc = "done")
    => /\ workspaces # <<>>
       /\ HasRecord(workspaces, currentWorkspace)
       /\ activeWorkspace = currentWorkspace

====
